---- MODULE Spec2Model ----
(***************************************************************************)
(* A model of src/src/lib/leagueData.ts: the rate-limited fetch client     *)
(* (apiFetch), the concurrency limiter (createLimiter) and the board       *)
(* pipeline (getLeagueBoards).                                             *)
(*                                                                         *)
(* Several specifications share the module:                                *)
(*   SpecFetch      one apiFetch call against an arbitrary upstream;       *)
(*   SpecLimiter    one createLimiter(N) limiter under arbitrary callers;  *)
(*   Spec           one getLeagueBoards() run against a chosen upstream;   *)
(*   SpecRetry      one retryNullable call;                                *)
(*   SpecCache      the client with the in-memory cache under two callers; *)
(*   SpecShared     the variant with the module-level fixtureStatsCache;   *)
(*   SpecThrottled  the throttled client under concurrent lookups;         *)
(*   SpecRefresh    one GET of the refresh route with buildAllBoards.      *)
(* SpecFetchLive and SpecLimiterLive add the fairness of the event loop.   *)
(* The variables of the other components stay at their initial value.      *)
(*                                                                         *)
(* JavaScript's `null` of a `number | null` is written Null (-1): every    *)
(* number of the program (ids, goals, counts, years) is a natural.         *)
(***************************************************************************)
EXTENDS Integers, Sequences, FiniteSets, TLC

VARIABLES
    af,        \* apiFetch: the activation record of one call
    lim,       \* createLimiter: [concurrency, active, queue]
    microQ,    \* the microtask queue: queued callers whose resolve() was called
    callers,   \* SpecLimiter: each caller's position in limit()
    world,     \* the environment of a getLeagueBoards run: the key and the upstream
    run,       \* getLeagueBoards: the activation record of one call
    obs,       \* what an observer records: the limiter's waiters, the HTTP requests
               \* of a run, and the argument and result of a function under test
    cached,    \* src/unnamed/part_001: the response cache, the clock and one lookup
    shared,    \* src/unnamed/part_011: fixtureStatsCache and the invocations sharing it
    throttled, \* src/unnamed/part_015: lastRequestAt, the clock and the throttled callers
    cron,      \* src/src/app/api/cron/refresh/route.ts: one GET, its build and the blob
    retry      \* retryNullable: the activation record of one call

\* the state of the variants of the pipeline, and of the refresh route
variants == <<cached, shared, throttled, cron, retry>>

vars == <<af, lim, microQ, callers, world, run, obs, variants>>

Null == -1

\* nothing observed yet
obsIdle ==
    [queued |-> <<>>, resumed |-> <<>>, http |-> 0,
     fn |-> "", arg |-> <<>>, result |-> Null]

Min(a, b) == IF a < b THEN a ELSE b

Max(a, b) == IF a > b THEN a ELSE b

Pow2(n) == 2 ^ n

(***************************************************************************)
(* apiFetch (leagueData.ts 155-207)                                        *)
(***************************************************************************)
maxAttempts == 7

\* What one HTTP request can meet: a response with a status and a body that
\* parses as JSON or not, or fetch() throwing (network failure).
HttpOutcomes ==
    { [kind |-> "response", status |-> s, json |-> TRUE] : s \in {200, 429, 404, 500} }
    \cup { [kind |-> "response", status |-> 200, json |-> FALSE],
           [kind |-> "throw", status |-> 0, json |-> FALSE] }

\* fault variant of ResponseOk: every status passes for a success
anyStatusOk(status) == TRUE

\* fault variant of rateLimited: every 4xx status is waited on and retried
anyClientError(status) == status >= 400 /\ status <= 499

\* r.status === 429
rateLimited(status) == status = 429

\* Response.ok
ResponseOk(status) == status >= 200 /\ status <= 299

NoResult == [ok |-> FALSE, error |-> "", status |-> Null]

afIdle ==
    [pc |-> "idle", apiKey |-> TRUE, attempt |-> 0, requests |-> 0,
     sleeps |-> <<>>, resps |-> <<>>, result |-> NoResult]

\* fault variant of rateLimitWait: the wait without its cap
uncappedWait(attempt) == 1000 * Pow2(attempt - 1)

\* Math.min(20000, 1000 * Math.pow(2, attempt - 1))
rateLimitWait(attempt) == Min(20000, 1000 * Pow2(attempt - 1))

\* Math.min(12000, 700 * Math.pow(2, attempt - 1))
networkWait(attempt) == Min(12000, 700 * Pow2(attempt - 1))

\* fault variant of withinAttempts: the loop makes one pass more
oneAttemptMore(attempt) == attempt <= maxAttempts + 1

\* attempt <= maxAttempts, the condition of the loop
withinAttempts(attempt) == attempt <= maxAttempts

\* The call: the key check, then the first pass of the loop up to `await fetch`.
ApiFetchCall ==
    /\ af.pc = "idle"
    /\ IF ~af.apiKey
       THEN af' = [af EXCEPT !.pc = "done",
                     !.result = [ok |-> FALSE, error |-> "Missing APISPORTS_KEY env var",
                                 status |-> Null]]
       ELSE af' = [af EXCEPT !.pc = "fetch", !.attempt = 1, !.requests = 1]
    /\ UNCHANGED <<lim, microQ, callers, world, run, obs, variants>>

\* `await fetch(...)` settles with outcome o; the body of the loop runs to its
\* next await or to a return.
ApiFetchSettle(o) ==
    /\ af.pc = "fetch"
    /\ LET seen == [af EXCEPT !.resps = Append(@, o)] IN
       IF o.kind = "response" /\ rateLimited(o.status)
       THEN af' = [seen EXCEPT !.pc = "sleep",
                     !.sleeps = Append(@, [why |-> "429", ms |-> rateLimitWait(af.attempt)])]
       ELSE IF o.kind = "response" /\ ~ResponseOk(o.status)
       THEN af' = [seen EXCEPT !.pc = "done",
                     !.result = [ok |-> FALSE, error |-> "API status", status |-> o.status]]
       ELSE IF o.kind = "response" /\ o.json
       THEN af' = [seen EXCEPT !.pc = "done",
                     !.result = [ok |-> TRUE, error |-> "", status |-> Null]]
       ELSE \* fetch() or r.json() threw: the catch block
            IF af.attempt = maxAttempts
            THEN af' = [seen EXCEPT !.pc = "done",
                          !.result = [ok |-> FALSE, error |-> "Network error", status |-> Null]]
            ELSE af' = [seen EXCEPT !.pc = "sleep",
                          !.sleeps = Append(@, [why |-> "network", ms |-> networkWait(af.attempt)])]
    /\ UNCHANGED <<lim, microQ, callers, world, run, obs, variants>>

\* The sleep ends: attempt++, and either the next request or the loop's exit.
ApiFetchWake ==
    /\ af.pc = "sleep"
    /\ IF withinAttempts(af.attempt + 1)
       THEN af' = [af EXCEPT !.pc = "fetch", !.attempt = @ + 1, !.requests = @ + 1]
       ELSE af' = [af EXCEPT !.pc = "done", !.attempt = @ + 1,
                     !.result = [ok |-> FALSE, error |-> "Unknown error", status |-> Null]]
    /\ UNCHANGED <<lim, microQ, callers, world, run, obs, variants>>

(***************************************************************************)
(* createLimiter (leagueData.ts 64-85)                                     *)
(***************************************************************************)
\* bounds of the limiter harness
MaxCallers == 4
MaxConcurrency == 2

Callers == 1 .. MaxCallers

limIdle == [concurrency |-> 2, active |-> 0, queue |-> <<>>]

\* fault variant of limitEnter: the caller never queues
enterUnbounded(L, c) == [lim |-> [L EXCEPT !.active = @ + 1], started |-> TRUE]

\* limit(fn) up to its first await: queue behind a full limiter, or take a
\* slot and call fn. Returns the limiter and whether fn was started.
limitEnter(L, c) ==
    IF L.active >= L.concurrency
    THEN [lim |-> [L EXCEPT !.queue = Append(@, c)], started |-> FALSE]
    ELSE [lim |-> [L EXCEPT !.active = @ + 1], started |-> TRUE]

\* fault variant of next: the waiter queued last is resolved (pop, not shift)
nextLast(L, mq) ==
    IF L.queue = <<>>
    THEN [lim |-> [L EXCEPT !.active = @ - 1], microQ |-> mq]
    ELSE [lim |-> [L EXCEPT !.active = @ - 1,
                            !.queue = SubSeq(@, 1, Len(@) - 1)],
          microQ |-> Append(mq, L.queue[Len(L.queue)])]

\* next(): active--, and the head of the queue, if any, is resolved: its
\* continuation becomes a microtask.
next(L, mq) ==
    IF L.queue = <<>>
    THEN [lim |-> [L EXCEPT !.active = @ - 1], microQ |-> mq]
    ELSE [lim |-> [L EXCEPT !.active = @ - 1, !.queue = Tail(@)],
          microQ |-> Append(mq, Head(L.queue))]

\* fault variant of finally: next() runs only after a success
finallyOnSuccess(L, mq, outcome) ==
    IF outcome = "fulfilled" THEN next(L, mq) ELSE [lim |-> L, microQ |-> mq]

\* try { return await fn() } finally { next() }: next() runs however fn settled
finally(L, mq, outcome) == next(L, mq)

\* The continuation of a resolved waiter: active++ and fn is called.
limitResume(L) == [L EXCEPT !.active = @ + 1]

\* A caller calls limit(fn).
LimitCall(c) ==
    /\ callers[c] = "idle"
    /\ LET e == limitEnter(lim, c) IN
       /\ lim' = e.lim
       /\ callers' = [callers EXCEPT ![c] = IF e.started THEN "running" ELSE "queued"]
       /\ obs' = IF e.started THEN obs ELSE [obs EXCEPT !.queued = Append(@, c)]
    /\ UNCHANGED <<af, microQ, world, run, variants>>

\* fn settles (fulfilled or rejected): the finally block runs next().
LimitSettle(c, outcome) ==
    /\ callers[c] = "running"
    /\ LET n == finally(lim, microQ, outcome) IN
       /\ lim' = n.lim
       /\ microQ' = n.microQ
    /\ callers' = [callers EXCEPT ![c] = outcome]
    /\ UNCHANGED <<af, world, run, obs, variants>>

\* The first microtask runs: a resolved waiter goes on after its await.
LimitResume ==
    /\ microQ # <<>>
    /\ callers[Head(microQ)] = "queued"
    /\ lim' = limitResume(lim)
    /\ callers' = [callers EXCEPT ![Head(microQ)] = "running"]
    /\ microQ' = Tail(microQ)
    /\ obs' = [obs EXCEPT !.resumed = Append(@, Head(microQ))]
    /\ UNCHANGED <<af, world, run, variants>>

Executing == { c \in Callers : callers[c] = "running" }

(***************************************************************************)
(* Sequences as JavaScript arrays                                          *)
(***************************************************************************)
\* arr.slice(0, n)
slice(arr, n) == SubSeq(arr, 1, Min(n, Len(arr)))

\* arr.filter(...) and arr.map(...) are SelectSeq and [i \in 1..Len(arr) |-> ...]
Range(s) == { s[i] : i \in 1 .. Len(s) }

RECURSIVE Concat(_)
Concat(ss) == IF ss = <<>> THEN <<>> ELSE Head(ss) \o Concat(Tail(ss))

\* the insertion of id into a Set<number>, kept in insertion order
setAdd(ids, id) == IF id \in Range(ids) THEN ids ELSE Append(ids, id)

RECURSIVE setAddAll(_, _)
setAddAll(ids, more) ==
    IF more = <<>> THEN ids ELSE setAddAll(setAdd(ids, Head(more)), Tail(more))

(***************************************************************************)
(* Strings: a team name or an event detail is a key of Chars, the table of *)
(* its characters; "U+00E9" is e-acute, "U+0301" the combining acute.      *)
(***************************************************************************)
Chars ==
    ("Alpha" :> <<"A", "l", "p", "h", "a">>) @@
    ("Beta" :> <<"B", "e", "t", "a">>) @@
    ("Toluca" :> <<"T", "o", "l", "u", "c", "a">>) @@
    ("Delta" :> <<"D", "e", "l", "t", "a">>) @@
    ("Club Ame'rica" :> <<"C", "l", "u", "b", " ", "A", "m", "U+00E9", "r", "i", "c", "a">>) @@
    ("America" :> <<"A", "m", "e", "r", "i", "c", "a">>) @@
    ("Leon" :> <<"L", "e", "o", "n">>) @@
    ("1. FC Koln" :> <<"1", ".", " ", "F", "C", " ", "K", "o", "l", "n">>) @@
    ("1. FC Heidenheim" :> <<"1", ".", " ", "F", "C", " ", "H", "e", "i", "d", "e", "n", "h", "e", "i", "m">>) @@
    ("Yellow Card" :> <<"Y", "e", "l", "l", "o", "w", " ", "C", "a", "r", "d">>) @@
    ("Red Card" :> <<"R", "e", "d", " ", "C", "a", "r", "d">>) @@
    ("Second Yellow card" :> <<"S", "e", "c", "o", "n", "d", " ", "Y", "e", "l", "l", "o", "w", " ", "c", "a", "r", "d">>) @@
    ("Normal Goal" :> <<"N", "o", "r", "m", "a", "l", " ", "G", "o", "a", "l">>) @@
    ("Red card cancelled" :> <<"R", "e", "d", " ", "c", "a", "r", "d", " ", "c", "a", "n", "c", "e", "l", "l", "e", "d">>) @@
    ("" :> <<>>)

CaseFold ==
    ("A" :> "a") @@ ("B" :> "b") @@ ("C" :> "c") @@ ("D" :> "d") @@ ("E" :> "e") @@
    ("F" :> "f") @@ ("G" :> "g") @@ ("H" :> "h") @@ ("I" :> "i") @@ ("J" :> "j") @@
    ("K" :> "k") @@ ("L" :> "l") @@ ("M" :> "m") @@ ("N" :> "n") @@ ("O" :> "o") @@
    ("P" :> "p") @@ ("Q" :> "q") @@ ("R" :> "r") @@ ("S" :> "s") @@ ("T" :> "t") @@
    ("U" :> "u") @@ ("V" :> "v") @@ ("W" :> "w") @@ ("X" :> "x") @@ ("Y" :> "y") @@
    ("Z" :> "z") @@ ("U+00C9" :> "U+00E9")

Alnum ==
    {"a", "b", "c", "d", "e", "f", "g", "h", "i", "j", "k", "l", "m", "n", "o", "p", "q",
     "r", "s", "t", "u", "v", "w", "x", "y", "z",
     "0", "1", "2", "3", "4", "5", "6", "7", "8", "9"}

\* s.toLowerCase()
toLowerCase(s) == [i \in 1 .. Len(s) |-> IF s[i] \in DOMAIN CaseFold THEN CaseFold[s[i]] ELSE s[i]]

\* s.normalize("NFKD"): an accented letter becomes the letter and a combining mark
normalizeNFKD(s) ==
    Concat([i \in 1 .. Len(s) |-> IF s[i] = "U+00E9" THEN <<"e", "U+0301">> ELSE <<s[i]>>])

\* s.replace(/[\u0300-\u036f]/g, ""): the combining marks are dropped
stripMarks(s) == SelectSeq(s, LAMBDA c : c # "U+0301")

\* s.replace(/[^a-z0-9]+/g, " "): each run of other characters becomes one space
RECURSIVE collapseRuns(_, _)
collapseRuns(s, inRun) ==
    IF s = <<>> THEN <<>>
    ELSE IF Head(s) \in Alnum THEN <<Head(s)>> \o collapseRuns(Tail(s), FALSE)
    ELSE IF inRun THEN collapseRuns(Tail(s), TRUE)
    ELSE <<" ">> \o collapseRuns(Tail(s), TRUE)

\* s.trim()
RECURSIVE trimStart(_)
trimStart(s) == IF s # <<>> /\ Head(s) = " " THEN trimStart(Tail(s)) ELSE s

RECURSIVE trimEnd(_)
trimEnd(s) == IF s # <<>> /\ s[Len(s)] = " " THEN trimEnd(SubSeq(s, 1, Len(s) - 1)) ELSE s

trim(s) == trimEnd(trimStart(s))

\* a.includes(b)
includes(a, b) == \E i \in 0 .. (Len(a) - Len(b)) : SubSeq(a, i + 1, i + Len(b)) = b

\* s.split(" ").filter(Boolean)
RECURSIVE splitWords(_, _)
splitWords(s, word) ==
    IF s = <<>> THEN (IF word = <<>> THEN <<>> ELSE <<word>>)
    ELSE IF Head(s) = " "
         THEN (IF word = <<>> THEN <<>> ELSE <<word>>) \o splitWords(Tail(s), <<>>)
         ELSE splitWords(Tail(s), Append(word, Head(s)))

normName(s) == trim(collapseRuns(stripMarks(normalizeNFKD(toLowerCase(s))), FALSE))

tokens(s) == Range(splitWords(normName(s), <<>>))

\* 145-151: overlap >= 0.6, on integers: common / size >= 6 / 10
tokenOverlap(ta, tb) ==
    LET common == Cardinality(ta \cap tb)
    IN  IF ta = {} \/ tb = {} THEN FALSE
        ELSE 10 * common >= 6 * Cardinality(ta) \/ 10 * common >= 6 * Cardinality(tb)

\* 137-151: the tests of nameMatches on the two normalised names A and B
normMatches(A, B) ==
    IF A = <<>> \/ B = <<>> THEN FALSE
    ELSE IF A = B THEN TRUE
    ELSE IF includes(A, B) \/ includes(B, A) THEN TRUE
    ELSE tokenOverlap(tokens(A), tokens(B))

nameMatches(a, b) == normMatches(normName(a), normName(b))

(***************************************************************************)
(* Pure helpers of leagueData.ts                                           *)
(***************************************************************************)
FINISHED == {"FT", "AET", "PEN"}

blankMatch ==
    [fixtureId |-> 0, date |-> 0, opponent |-> "-", isHome |-> TRUE,
     goalsTotal |-> Null, cornersTotal |-> Null, cardsTotal |-> Null]

\* Number(v) of the strings the upstream sends: any other string gives NaN
StringToNumber == ("4" :> 4) @@ ("0" :> 0) @@ ("" :> 0)

\* a statistics value is null, a number or a string
statNumber(v) ==
    IF v.t = "null" THEN Null
    ELSE IF v.t = "num" THEN v.n
    ELSE IF v.s \in DOMAIN StringToNumber THEN StringToNumber[v.s] ELSE Null

RECURSIVE sumOrZero(_)
sumOrZero(values) ==
    IF values = <<>> THEN 0
    ELSE (IF Head(values) = Null THEN 0 ELSE Head(values)) + sumOrZero(Tail(values))

\* fault variant of sumNumbers: without the `any` test
sumAlways(values) == sumOrZero(values)

sumNumbers(values) ==
    IF \A i \in 1 .. Len(values) : values[i] = Null THEN Null ELSE sumOrZero(values)

\* the stable Array.prototype.sort with the newest-first comparator
RECURSIVE insertByDateDesc(_, _)
insertByDateDesc(sorted, fx) ==
    IF sorted = <<>> THEN <<fx>>
    ELSE IF Head(sorted).fixture.date >= fx.fixture.date
         THEN <<Head(sorted)>> \o insertByDateDesc(Tail(sorted), fx)
         ELSE <<fx>> \o sorted

RECURSIVE sortInto(_, _)
sortInto(sorted, arr) ==
    IF arr = <<>> THEN sorted ELSE sortInto(insertByDateDesc(sorted, Head(arr)), Tail(arr))

\* fault variant of sortByDateDesc: the array as it came
unsorted(arr) == arr

sortByDateDesc(arr) == sortInto(<<>>, arr)

\* byId = new Map(); for (fx of all) byId.set(fx.fixture.id, fx); [...byId.values()]
RECURSIVE byIdValues(_, _)
byIdValues(vals, all) ==
    IF all = <<>> THEN vals
    ELSE LET fx == Head(all)
             at == { i \in 1 .. Len(vals) : vals[i].fixture.id = fx.fixture.id }
         IN  byIdValues(IF at = {} THEN Append(vals, fx)
                        ELSE [vals EXCEPT ![CHOOSE i \in at : TRUE] = fx],
                        Tail(all))

\* fault variant of finishedOf: no filter on the status
everyFixture(response) == response

\* the finished fixtures of a /fixtures response
finishedOf(response) == SelectSeq(response, LAMBDA fx : fx.fixture.status \in FINISHED)

(***************************************************************************)
(* The upstream: what apiFetch eventually answers to each request of one   *)
(* league. A league's upstream is one of the LeagueKinds below.            *)
(***************************************************************************)
Fail == [ok |-> FALSE, response |-> <<>>]

Ok(response) == [ok |-> TRUE, response |-> response]

Side(id, name) == [id |-> id, name |-> name]

Fx(id, date, status, home, away, gh, ga) ==
    [fixture |-> [id |-> id, date |-> date, status |-> status],
     teams |-> [home |-> home, away |-> away],
     goals |-> [home |-> gh, away |-> ga]]

RosterEntry(id, name) == [team |-> [id |-> id, name |-> name, logo |-> "logo"]]

Alpha == Side(1, "Alpha")
Beta == Side(2, "Beta")
Toluca == Side(3, "Toluca")
Delta == Side(4, "Delta")
AmericaFx == Side(20, "America")
Leon == Side(11, "Leon")
Koln == Side(5, "1. FC Koln")
Heidenheim == Side(6, "1. FC Heidenheim")

LeagueKinds ==
    {"SEASON_FAIL", "NO_SEASONS", "TEAMS_FAIL", "TEAMS_EMPTY",
     "E2E", "FALLBACK", "BULK_FAIL", "MANY", "ALIAS", "DERBY", "NO_FIXTURES"}

\* GET /leagues?id=
LeaguesResp(kind) ==
    CASE kind = "SEASON_FAIL" -> Fail
      [] kind = "NO_SEASONS" -> Ok(<<[seasons |-> <<>>]>>)
      [] kind = "FALLBACK" ->
            Ok(<<[seasons |-> <<[year |-> 2025, current |-> FALSE],
                                [year |-> 2024, current |-> FALSE]>>]>>)
      [] OTHER ->
            Ok(<<[seasons |-> <<[year |-> 2024, current |-> FALSE],
                                [year |-> 2025, current |-> TRUE]>>]>>)

\* GET /teams?league=&season=
TeamsResp(kind, season) ==
    CASE kind = "TEAMS_FAIL" -> Fail
      [] kind = "TEAMS_EMPTY" -> Ok(<<>>)
      [] kind = "FALLBACK" -> Ok(<<RosterEntry(1, "Alpha"), RosterEntry(2, "Beta"),
                                   RosterEntry(3, "Toluca")>>)
      [] kind = "ALIAS" -> Ok(<<RosterEntry(10, "Club Ame'rica"), RosterEntry(11, "Leon")>>)
      [] kind = "DERBY" -> Ok(<<RosterEntry(5, "1. FC Koln"), RosterEntry(6, "1. FC Heidenheim"),
                                RosterEntry(11, "Leon")>>)
      [] kind = "BULK_FAIL" -> Ok(<<RosterEntry(1, "Alpha"), RosterEntry(2, "Beta"),
                                    RosterEntry(3, "Toluca")>>)
      [] OTHER -> Ok(<<RosterEntry(1, "Alpha"), RosterEntry(2, "Beta")>>)

\* GET /fixtures?league=&season=&last=1000
FixturesResp(kind, season) ==
    CASE kind = "E2E" /\ season = 2025 ->
            Ok(<<Fx(102, 20, "AET", Beta, Alpha, 0, 0),
                 Fx(104, 40, "NS", Alpha, Beta, Null, Null),
                 Fx(101, 30, "FT", Alpha, Beta, 2, 1),
                 Fx(103, 10, "PEN", Alpha, Beta, 1, Null)>>)
      [] kind = "E2E" /\ season = 2024 ->
            Ok(<<Fx(103, 10, "PEN", Alpha, Beta, 1, Null),
                 Fx(105, 5, "PST", Beta, Alpha, Null, Null)>>)
      [] kind = "FALLBACK" /\ season = 2025 ->
            Ok(<<Fx(201, 12, "FT", Alpha, Beta, 1, 1)>>)
      [] kind = "MANY" /\ season = 2025 ->
            Ok(<<Fx(510, 16, "1H", Alpha, Beta, 0, 0),
                 Fx(505, 15, "FT", Alpha, Beta, 1, 0),
                 Fx(504, 14, "FT", Beta, Alpha, 0, 2),
                 Fx(503, 13, "FT", Alpha, Beta, 1, 1),
                 Fx(502, 12, "FT", Beta, Alpha, 3, 0),
                 Fx(501, 11, "FT", Alpha, Beta, 0, 0)>>)
      [] kind = "MANY" /\ season = 2024 ->
            Ok(<<Fx(506, 1, "FT", Beta, Alpha, 2, 2),
                 Fx(507, 2, "FT", Alpha, Beta, 1, 2),
                 Fx(508, 3, "FT", Beta, Alpha, 0, 1),
                 Fx(509, 3, "AET", Alpha, Beta, 4, 3),
                 Fx(505, 15, "FT", Alpha, Beta, 1, 0)>>)
      [] kind = "ALIAS" /\ season = 2025 ->
            Ok(<<Fx(601, 5, "FT", AmericaFx, Leon, 2, 0),
                 Fx(602, 6, "FT", Leon, AmericaFx, 1, 1)>>)
      [] kind = "ALIAS" /\ season = 2024 -> Ok(<<>>)
      [] kind = "DERBY" /\ season = 2025 ->
            Ok(<<Fx(701, 9, "FT", Koln, Leon, 1, 0),
                 Fx(702, 8, "FT", Heidenheim, Leon, 2, 2)>>)
      [] OTHER -> Fail

\* GET /fixtures?team=&last=120
TeamFixturesResp(kind, teamId) ==
    CASE kind = "FALLBACK" /\ teamId = 3 ->
            Ok(<<Fx(310, 30, "CANC", Toluca, Delta, Null, Null),
                 Fx(309, 29, "1H", Delta, Toluca, 0, 1),
                 Fx(308, 28, "FT", Toluca, Delta, 1, 0),
                 Fx(307, 27, "FT", Delta, Toluca, 0, 0),
                 Fx(306, 26, "PEN", Toluca, Delta, 2, 2),
                 Fx(305, 25, "FT", Delta, Toluca, 1, 3),
                 Fx(304, 24, "FT", Toluca, Delta, 0, 1),
                 Fx(303, 23, "AET", Delta, Toluca, 2, 1),
                 Fx(302, 22, "FT", Toluca, Delta, 1, 1),
                 Fx(301, 21, "FT", Delta, Toluca, 0, 2)>>)
      [] kind = "BULK_FAIL" /\ teamId = 1 ->
            Ok(<<Fx(402, 8, "SUSP", Beta, Alpha, 0, 0),
                 Fx(401, 7, "FT", Alpha, Beta, 3, 2)>>)
      [] OTHER -> Fail

Stat(type, value) == [type |-> type, value |-> value]

Num(n) == [t |-> "num", n |-> n]

Str(str) == [t |-> "str", s |-> str]

NullValue == [t |-> "null"]

\* one side's row of /fixtures/statistics, with the given Corner Kicks value
StatsRow(corners) ==
    [statistics |-> <<Stat("Ball Possession", Str("45%")), Stat("Corner Kicks", corners),
                      Stat("Yellow Cards", Num(1))>>]

Event(type, detail) == [type |-> type, detail |-> detail]

\* GET /fixtures/statistics?fixture=, as answered to the i-th lookup of the fixture
StatsResp(fixtureId, i) ==
    CASE fixtureId = 101 -> Ok(<<StatsRow(Num(5)), StatsRow(Str("4"))>>)
      [] fixtureId = 102 ->
            IF i < 3 THEN Fail ELSE Ok(<<StatsRow(NullValue), StatsRow(Num(3))>>)
      [] fixtureId = 103 -> Ok(<<>>)
      [] fixtureId = 201 -> Ok(<<StatsRow(Num(0)), StatsRow(Num(0))>>)
      [] fixtureId = 401 ->
            Ok(<<[statistics |-> <<Stat("Ball Possession", Str("55%"))>>],
                 StatsRow(Str("n/a"))>>)
      [] fixtureId = 508 -> IF i < 2 THEN Ok(<<>>) ELSE Ok(<<StatsRow(Num(7))>>)
      [] fixtureId = 702 ->
            Ok(<<[statistics |-> <<Stat("Corner Kicks", Num(4)), Stat("Yellow Cards", Num(2)),
                                   Stat("Red Cards", Num(1))>>],
                 [statistics |-> <<Stat("Corner Kicks", Num(6)), Stat("Yellow Cards", Num(1)),
                                   Stat("Red Cards", Num(0))>>]>>)
      [] OTHER -> Ok(<<StatsRow(Num(2)), StatsRow(Num(2))>>)

\* GET /fixtures/events?fixture=, as answered to the i-th lookup of the fixture
EventsResp(fixtureId, i) ==
    CASE fixtureId = 101 ->
            Ok(<<Event("Card", "Yellow Card"), Event("Goal", "Normal Goal"),
                 Event("Card", "Red Card"), Event("Card", "Second Yellow card"),
                 Event("Var", "Red card cancelled")>>)
      [] fixtureId = 102 -> Ok(<<>>)
      [] fixtureId = 103 -> Fail
      [] fixtureId = 201 -> Ok(<<Event("Goal", "Normal Goal")>>)
      [] fixtureId = 401 -> Ok(<<Event("Card", "")>>)
      [] fixtureId = 507 -> IF i < 2 THEN Fail ELSE Ok(<<Event("Card", "Red Card")>>)
      [] fixtureId = 702 -> Fail
      [] OTHER -> Ok(<<Event("Card", "Yellow Card")>>)

(***************************************************************************)
(* The core fetchers, as functions of the apiFetch result r                *)
(***************************************************************************)
\* getCurrentSeason (242-248)
getCurrentSeason(r) ==
    IF ~r.ok THEN Null
    ELSE LET seasons == IF r.response = <<>> THEN <<>> ELSE r.response[1].seasons
             current == SelectSeq(seasons, LAMBDA x : x.current)
         IN  IF current # <<>> THEN current[1].year
             ELSE IF seasons # <<>> THEN seasons[1].year
             ELSE Null

\* a TeamBoard[] | null
NullArray == [null |-> TRUE, arr |-> <<>>]

Array(arr) == [null |-> FALSE, arr |-> arr]

\* getTeamsForLeague (250-264)
getTeamsForLeague(r) ==
    IF ~r.ok THEN NullArray
    ELSE Array([i \in 1 .. Len(r.response) |->
                    [teamId |-> r.response[i].team.id, name |-> r.response[i].team.name,
                     logo |-> r.response[i].team.logo, matches |-> <<>>]])

\* getTeamFinishedFixturesNoSeason (290-300)
getTeamFinishedFixturesNoSeason(r) ==
    IF ~r.ok THEN <<>> ELSE slice(finishedOf(r.response), 7)

\* row.statistics.find((s) => s.type === "Corner Kicks")?.value ?? null
cornerValue(row) ==
    LET found == SelectSeq(row.statistics, LAMBDA x : x.type = "Corner Kicks")
    IN  IF found = <<>> THEN NullValue ELSE found[1].value

\* getCornersTotal (303-320)
getCornersTotal(r) ==
    IF ~r.ok THEN Null
    ELSE IF r.response = <<>> THEN Null
    ELSE sumNumbers([i \in 1 .. Len(r.response) |-> statNumber(cornerValue(r.response[i]))])

yellowWord == <<"y", "e", "l", "l", "o", "w">>

redWord == <<"r", "e", "d">>

\* fault variant of cardCount: without `if (e.type !== "Card") continue`
cardCountAnyType(events, word) ==
    Len(SelectSeq(events, LAMBDA e : includes(toLowerCase(Chars[e.detail]), word)))

\* the loop of getCardsTotal over the events
cardCount(events, word) ==
    Len(SelectSeq(events, LAMBDA e :
            e.type = "Card" /\ includes(toLowerCase(Chars[e.detail]), word)))

\* getCardsTotal (323-345)
getCardsTotal(r) ==
    IF ~r.ok THEN Null
    ELSE IF r.response = <<>> THEN 0
    ELSE cardCount(r.response, yellowWord) + cardCount(r.response, redWord)

\* buildFixtureAliasIndex (361-378): a Map from normalised name to a Set of ids,
\* both in insertion order
aliasAdd(index, name, id) ==
    LET n == normName(Chars[name])
        at == { i \in 1 .. Len(index) : index[i].name = n }
    IN  IF n = <<>> THEN index
        ELSE IF at = {} THEN Append(index, [name |-> n, ids |-> <<id>>])
        ELSE [index EXCEPT ![CHOOSE i \in at : TRUE].ids = setAdd(@, id)]

RECURSIVE aliasIndexInto(_, _)
aliasIndexInto(index, leagueFixtures) ==
    IF leagueFixtures = <<>> THEN index
    ELSE LET fx == Head(leagueFixtures) IN
         aliasIndexInto(
             aliasAdd(aliasAdd(index, fx.teams.home.name, fx.teams.home.id),
                      fx.teams.away.name, fx.teams.away.id),
             Tail(leagueFixtures))

buildFixtureAliasIndex(leagueFixtures) == aliasIndexInto(<<>>, leagueFixtures)

\* fault variant of resolveEffectiveIds: the alias index is not consulted
ownIdOnly(team, aliasIndex) == <<team.teamId>>

\* resolveEffectiveIds (381-402)
resolveEffectiveIds(team, aliasIndex) ==
    LET teamNameNorm == normName(Chars[team.name])
        exact == SelectSeq(aliasIndex, LAMBDA e : e.name = teamNameNorm)
        fuzzy == SelectSeq(aliasIndex, LAMBDA e : nameMatches(teamNameNorm, e.name))
    IN  IF exact # <<>> THEN setAddAll(<<team.teamId>>, exact[1].ids)
        ELSE IF fuzzy # <<>> THEN setAddAll(<<team.teamId>>, fuzzy[1].ids)
        ELSE <<team.teamId>>

\* teamInFixture (405-409)
teamInFixture(team, effectiveIds, fx) ==
    \/ fx.teams.home.id \in Range(effectiveIds)
    \/ fx.teams.away.id \in Range(effectiveIds)
    \/ nameMatches(Chars[team.name], Chars[fx.teams.home.name])
    \/ nameMatches(Chars[team.name], Chars[fx.teams.away.name])

\* computeIsHome (412-420)
computeIsHome(team, effectiveIds, fx) ==
    IF fx.teams.home.id \in Range(effectiveIds) THEN TRUE
    ELSE IF fx.teams.away.id \in Range(effectiveIds) THEN FALSE
    ELSE IF nameMatches(Chars[team.name], Chars[fx.teams.home.name]) THEN TRUE
    ELSE IF nameMatches(Chars[team.name], Chars[fx.teams.away.name]) THEN FALSE
    ELSE TRUE

(***************************************************************************)
(* getLeagueBoards (423-540)                                               *)
(***************************************************************************)
\* the number of configured leagues the model runs (LEAGUES lists five)
NumLeagues == 2

AllLeagues ==
    <<[leagueId |-> 262, leagueName |-> "Liga MX"],
      [leagueId |-> 39, leagueName |-> "Premier League"],
      [leagueId |-> 78, leagueName |-> "Bundesliga"],
      [leagueId |-> 140, leagueName |-> "La Liga"],
      [leagueId |-> 135, leagueName |-> "Serie A"]>>

LEAGUES == SubSeq(AllLeagues, 1, Min(NumLeagues, Len(AllLeagues)))

\* retryNullable(fn, 3, 650)
tries == 3

\* apiFetch as getLeagueBoards sees it: without a key every call fails, with
\* one the call ends with what the upstream eventually answers
apiFetch(W, answer) == IF ~W.apiKey THEN Fail ELSE answer

runIdle ==
    [pc |-> "idle", li |-> 1, out |-> <<>>, season |-> Null, teams |-> <<>>,
     all |-> <<>>, seasonIdx |-> 0, perTeam |-> <<>>,
     fixtureIds |-> <<>>, fixtureData |-> <<>>, jobs |-> <<>>, hist |-> <<>>]

\* the locals of one pass of the loop go out of scope
clearLeague(R) ==
    [R EXCEPT !.season = Null, !.teams = <<>>, !.all = <<>>, !.seasonIdx = 0,
              !.perTeam = <<>>, !.fixtureIds = <<>>, !.fixtureData = <<>>, !.jobs = <<>>]

\* the head of the loop: the next league's getCurrentSeason request, or `return out`
enterLeague(R) ==
    IF R.li > Len(LEAGUES) THEN [clearLeague(R) EXCEPT !.pc = "done"]
    ELSE [clearLeague(R) EXCEPT !.pc = "season"]

errorBoard(league, season, error) ==
    [leagueId |-> league.leagueId, leagueName |-> league.leagueName,
     seasonUsed |-> season, error |-> error, teams |-> <<>>]

\* fault variant of pushAndContinue: the failed league ends the whole run
pushAndReturn(R, board) ==
    [clearLeague(R) EXCEPT !.out = Append(@, board), !.hist = Append(@, <<>>), !.pc = "done"]

\* out.push(board); continue
pushAndContinue(R, board) ==
    enterLeague([R EXCEPT !.out = Append(@, board), !.li = @ + 1,
                          !.hist = Append(@, <<>>)])

\* fault variant of perTeamSync: the bulk list is not looked at, every team
\* takes the fallback
fallbackAlways(t, ids, leagueFinished) ==
    [team |-> t, effectiveIds |-> ids, fixtures |-> <<>>,
     todo |-> ids, merged |-> <<>>, path |-> "fallback", found |-> {}]

\* the callback of teams.map (448-483) up to its return or its first await:
\* todo lists the ids whose fallback request is still to be answered. Two
\* fields are history, not program state: path (how the fixtures were got)
\* and found (the ids of the finished fixtures found for the team)
perTeamSync(t, ids, leagueFinished) ==
    LET fromLeague == slice(SelectSeq(leagueFinished, LAMBDA fx : teamInFixture(t, ids, fx)), 7)
        tNorm == normName(Chars[t.name])
        hits == SelectSeq(leagueFinished, LAMBDA fx :
                    \/ nameMatches(tNorm, Chars[fx.teams.home.name])
                    \/ nameMatches(tNorm, Chars[fx.teams.away.name]))
        hit == hits[1]
        swappedId == IF nameMatches(tNorm, Chars[hit.teams.home.name])
                     THEN hit.teams.home.id ELSE hit.teams.away.id
        swappedIds == setAdd(<<t.teamId>>, swappedId)
        swapped == slice(SelectSeq(leagueFinished, LAMBDA fx : teamInFixture(t, swappedIds, fx)), 7)
        settled(eff, fixtures) ==
            [team |-> t, effectiveIds |-> eff, fixtures |-> fixtures,
             todo |-> <<>>, merged |-> <<>>,
             path |-> "bulk",
             found |-> { fx.fixture.id : fx \in
                            { x \in Range(leagueFinished) : teamInFixture(t, eff, x) } }]
    IN  IF fromLeague # <<>> THEN settled(ids, fromLeague)
        ELSE IF hits # <<>> /\ swapped # <<>> THEN settled(swappedIds, swapped)
        ELSE [team |-> t, effectiveIds |-> ids, fixtures |-> <<>>,
              todo |-> ids, merged |-> <<>>, path |-> "fallback", found |-> {}]

\* one answer of the fallback loop (475-482) of a team
perTeamAnswer(P, r) ==
    LET merged == P.merged \o getTeamFinishedFixturesNoSeason(r)
        todo == Tail(P.todo)
        found == P.found \cup (IF r.ok THEN { fx.fixture.id : fx \in Range(finishedOf(r.response)) }
                                       ELSE {})
    IN  IF todo # <<>> THEN [P EXCEPT !.merged = merged, !.todo = todo, !.found = found]
        ELSE [P EXCEPT !.merged = <<>>, !.todo = <<>>, !.found = found,
                       !.fixtures = slice(sortByDateDesc(byIdValues(<<>>, merged)), 7)]

\* the dedup of the fixture ids (487-489)
RECURSIVE fixtureIdsOf(_, _)
fixtureIdsOf(ids, perTeamFixtures) ==
    IF perTeamFixtures = <<>> THEN ids
    ELSE LET fixtures == Head(perTeamFixtures).fixtures IN
         fixtureIdsOf(setAddAll(ids, [i \in 1 .. Len(fixtures) |-> fixtures[i].fixture.id]),
                      Tail(perTeamFixtures))

\* fault variant of dedupFixtureIds: each team's fixture ids, one after the other
everyFixtureId(perTeamFixtures) ==
    Concat([i \in 1 .. Len(perTeamFixtures) |->
                [k \in 1 .. Len(perTeamFixtures[i].fixtures) |->
                    perTeamFixtures[i].fixtures[k].fixture.id]])

dedupFixtureIds(perTeamFixtures) == fixtureIdsOf(<<>>, perTeamFixtures)

\* fault variant of fixtureDataGet: the entry that was stored first is taken
fixtureDataFirst(fixtureData, fixtureId) ==
    IF fixtureData = <<>> THEN [cornersTotal |-> Null, cardsTotal |-> Null]
    ELSE [cornersTotal |-> fixtureData[1].cornersTotal, cardsTotal |-> fixtureData[1].cardsTotal]

\* fixtureData.get(fixtureId) ?? { cornersTotal: null, cardsTotal: null }
fixtureDataGet(fixtureData, fixtureId) ==
    LET at == { i \in 1 .. Len(fixtureData) : fixtureData[i].fixtureId = fixtureId }
    IN  IF at = {} THEN [cornersTotal |-> Null, cardsTotal |-> Null]
        ELSE LET d == fixtureData[CHOOSE i \in at : TRUE]
             IN  [cornersTotal |-> d.cornersTotal, cardsTotal |-> d.cardsTotal]

\* fixtureData.set(fixtureId, { cornersTotal, cardsTotal })
fixtureDataSet(fixtureData, fixtureId, cornersTotal, cardsTotal) ==
    LET at == { i \in 1 .. Len(fixtureData) : fixtureData[i].fixtureId = fixtureId }
        d == [fixtureId |-> fixtureId, cornersTotal |-> cornersTotal, cardsTotal |-> cardsTotal]
    IN  IF at = {} THEN Append(fixtureData, d)
        ELSE [fixtureData EXCEPT ![CHOOSE i \in at : TRUE] = d]

\* fault variant of matchCard: goalsTotal counts the goals of the team's side only
matchCardOwnGoals(team, effectiveIds, fx, fixtureData) ==
    LET isHome == computeIsHome(team, effectiveIds, fx)
        homeGoals == IF fx.goals.home = Null THEN 0 ELSE fx.goals.home
        awayGoals == IF fx.goals.away = Null THEN 0 ELSE fx.goals.away
        d == fixtureDataGet(fixtureData, fx.fixture.id)
    IN  [fixtureId |-> fx.fixture.id, date |-> fx.fixture.date,
         opponent |-> IF isHome THEN fx.teams.away.name ELSE fx.teams.home.name,
         isHome |-> isHome, goalsTotal |-> IF isHome THEN homeGoals ELSE awayGoals,
         cornersTotal |-> d.cornersTotal, cardsTotal |-> d.cardsTotal]

\* the MatchCard of a fixture (506-527)
matchCard(team, effectiveIds, fx, fixtureData) ==
    LET isHome == computeIsHome(team, effectiveIds, fx)
        homeGoals == IF fx.goals.home = Null THEN 0 ELSE fx.goals.home
        awayGoals == IF fx.goals.away = Null THEN 0 ELSE fx.goals.away
        d == fixtureDataGet(fixtureData, fx.fixture.id)
    IN  [fixtureId |-> fx.fixture.id, date |-> fx.fixture.date,
         opponent |-> IF isHome THEN fx.teams.away.name ELSE fx.teams.home.name,
         isHome |-> isHome, goalsTotal |-> homeGoals + awayGoals,
         cornersTotal |-> d.cornersTotal, cardsTotal |-> d.cardsTotal]

\* fault variant of padMatches: no blank slot is pushed
unpadded(matches) == matches

\* while (matches.length < 7) matches.push(blankMatch())
RECURSIVE padMatches(_)
padMatches(matches) ==
    IF Len(matches) < 7 THEN padMatches(Append(matches, blankMatch)) ELSE matches

\* fault variant of filledTeam: a fixture without a corners total gets no slot
filledTeamWithStats(P, fixtureData) ==
    LET known == SelectSeq(P.fixtures, LAMBDA fx :
                     fixtureDataGet(fixtureData, fx.fixture.id).cornersTotal # Null)
        real == [i \in 1 .. Len(known) |->
                    matchCard(P.team, P.effectiveIds, known[i], fixtureData)]
    IN  [P.team EXCEPT !.matches = padMatches(slice(real, 7))]

\* one element of filledTeams (505-533)
filledTeam(P, fixtureData) ==
    LET real == [i \in 1 .. Len(P.fixtures) |->
                    matchCard(P.team, P.effectiveIds, P.fixtures[i], fixtureData)]
    IN  [P.team EXCEPT !.matches = padMatches(slice(real, 7))]

\* fault variant of assemble: a team without any fixture is left out
assembleWithFixtures(R) ==
    LET league == LEAGUES[R.li]
        kept == SelectSeq(R.perTeam, LAMBDA P : P.fixtures # <<>>)
        filledTeams == [i \in 1 .. Len(kept) |-> filledTeam(kept[i], R.fixtureData)]
    IN  [R EXCEPT !.pc = "sleep200",
                  !.hist = Append(@, [i \in 1 .. Len(kept) |->
                                [path |-> kept[i].path, found |-> kept[i].found,
                                 fixtures |-> kept[i].fixtures]]),
                  !.out = Append(@, [leagueId |-> league.leagueId,
                                     leagueName |-> league.leagueName,
                                     seasonUsed |-> R.season, error |-> "",
                                     teams |-> filledTeams])]

\* fault variant of assemble: the board goes to the front of out
assembleFirst(R) ==
    LET league == LEAGUES[R.li]
        filledTeams == [i \in 1 .. Len(R.perTeam) |-> filledTeam(R.perTeam[i], R.fixtureData)]
    IN  [R EXCEPT !.pc = "sleep200",
                  !.hist = <<[i \in 1 .. Len(R.perTeam) |->
                                [path |-> R.perTeam[i].path, found |-> R.perTeam[i].found,
                                 fixtures |-> R.perTeam[i].fixtures]]>> \o @,
                  !.out = <<[leagueId |-> league.leagueId,
                             leagueName |-> league.leagueName,
                             seasonUsed |-> R.season, error |-> "",
                             teams |-> filledTeams]>> \o @]

\* 505-536: the board is built and pushed, and the pass ends in sleep(200)
assemble(R) ==
    LET league == LEAGUES[R.li]
        filledTeams == [i \in 1 .. Len(R.perTeam) |-> filledTeam(R.perTeam[i], R.fixtureData)]
    IN  [R EXCEPT !.pc = "sleep200",
                  !.hist = Append(@, [i \in 1 .. Len(R.perTeam) |->
                                [path |-> R.perTeam[i].path, found |-> R.perTeam[i].found,
                                 fixtures |-> R.perTeam[i].fixtures]]),
                  !.out = Append(@, [leagueId |-> league.leagueId,
                                     leagueName |-> league.leagueName,
                                     seasonUsed |-> R.season, error |-> "",
                                     teams |-> filledTeams])]

\* await sleep(80), in ms
dispatchDelay == 80

\* slept is the time the job has slept before its first request
newJob == [pc |-> "queued", i |-> 0, slept |-> 0, cornersTotal |-> Null, cardsTotal |-> Null]

\* fixtureIds.map((fixtureId) => fxLimiter(...)): every job enters the limiter
\* at once, in the order of fixtureIds
RECURSIVE enterJobs(_, _, _, _)
enterJobs(L, jobs, j, n) ==
    IF j > n THEN [lim |-> L, jobs |-> jobs]
    ELSE LET e == limitEnter(L, j) IN
         enterJobs(e.lim,
                   Append(jobs, IF e.started THEN [newJob EXCEPT !.pc = "sleep80"] ELSE newJob),
                   j + 1, n)

\* 486-502 once every team's fixtures are known; with no fixture at all
\* Promise.all([]) resolves at once
statsStage(R, L) ==
    LET fixtureIds == dedupFixtureIds(R.perTeam)
        entered == enterJobs(L, <<>>, 1, Len(fixtureIds))
    IN  IF fixtureIds = <<>> THEN [run |-> assemble(R), lim |-> L]
        ELSE [run |-> [R EXCEPT !.pc = "stats", !.fixtureIds = fixtureIds,
                                !.jobs = entered.jobs],
              lim |-> entered.lim]

\* fault variant of afterPerTeam: the stats jobs do not wait for the fallbacks
statsAtOnce(R, L) == statsStage(R, L)

\* Promise.all over the teams resolves when no fallback is pending
afterPerTeam(R, L) ==
    IF \E i \in 1 .. Len(R.perTeam) : R.perTeam[i].todo # <<>>
    THEN [run |-> [R EXCEPT !.pc = "perTeam"], lim |-> L]
    ELSE statsStage(R, L)

\* 440-484 once both bulk requests are answered
perTeamStage(R, L) ==
    LET leagueFinished == sortByDateDesc(byIdValues(<<>>, R.all))
        aliasIndex == buildFixtureAliasIndex(leagueFinished)
        perTeam == [i \in 1 .. Len(R.teams) |->
                        perTeamSync(R.teams[i], resolveEffectiveIds(R.teams[i], aliasIndex),
                                    leagueFinished)]
    IN  afterPerTeam([R EXCEPT !.perTeam = perTeam, !.all = <<>>], L)

Kind == world.kinds[run.li]

\* fault variant of issued: the request leaves before the key is looked at
issuedAlways(W) == 1

\* the HTTP requests one apiFetch call of the run issues: none without a key
\* (165), else the one that is answered in the end
issued(W) == IF W.apiKey THEN 1 ELSE 0

\* a timer or a response is handled only once the microtasks have run
MacroTask == microQ = <<>>

\* getLeagueBoards() is called: the limiter is made and the loop entered
GetLeagueBoards ==
    /\ run.pc = "idle"
    /\ world.kinds # <<>>
    /\ run' = enterLeague(run)
    /\ lim' = [concurrency |-> 2, active |-> 0, queue |-> <<>>]
    /\ UNCHANGED <<af, microQ, callers, world, obs, variants>>

\* 428-432: getCurrentSeason is answered
SeasonAnswer ==
    /\ run.pc = "season" /\ MacroTask
    /\ LET season == getCurrentSeason(apiFetch(world, LeaguesResp(Kind))) IN
       IF season = Null \/ season = 0
       THEN run' = pushAndContinue(run, errorBoard(LEAGUES[run.li], Null, "Could not resolve season."))
       ELSE run' = [run EXCEPT !.pc = "teams", !.season = season]
    /\ obs' = [obs EXCEPT !.http = @ + issued(world)]
    /\ UNCHANGED <<af, lim, microQ, callers, world, variants>>

\* 434-438: getTeamsForLeague is answered
TeamsAnswer ==
    /\ run.pc = "teams" /\ MacroTask
    /\ LET teams == getTeamsForLeague(apiFetch(world, TeamsResp(Kind, run.season))) IN
       IF teams.null \/ Len(teams.arr) = 0
       THEN run' = pushAndContinue(run, errorBoard(LEAGUES[run.li], run.season, "Could not load teams."))
       ELSE run' = [run EXCEPT !.pc = "fixtures", !.teams = teams.arr, !.seasonIdx = 1]
    /\ obs' = [obs EXCEPT !.http = @ + issued(world)]
    /\ UNCHANGED <<af, lim, microQ, callers, world, variants>>

\* 267-287: one of the two bulk requests (season, season - 1) is answered
FixturesAnswer ==
    /\ run.pc = "fixtures" /\ MacroTask
    /\ LET s == IF run.seasonIdx = 1 THEN run.season ELSE run.season - 1
           r == apiFetch(world, FixturesResp(Kind, s))
           all == IF r.ok THEN run.all \o finishedOf(r.response) ELSE run.all
       IN  IF run.seasonIdx = 1
           THEN /\ run' = [run EXCEPT !.all = all, !.seasonIdx = 2]
                /\ lim' = lim
           ELSE LET n == perTeamStage([run EXCEPT !.all = all], lim) IN
                /\ run' = n.run
                /\ lim' = n.lim
    /\ obs' = [obs EXCEPT !.http = @ + issued(world)]
    /\ UNCHANGED <<af, microQ, callers, world, variants>>

\* 476: the fallback request in flight for team k is answered
TeamFallbackAnswer(k) ==
    /\ run.pc = "perTeam" /\ MacroTask
    /\ k \in 1 .. Len(run.perTeam)
    /\ run.perTeam[k].todo # <<>>
    /\ LET r == apiFetch(world, TeamFixturesResp(Kind, Head(run.perTeam[k].todo)))
           n == afterPerTeam([run EXCEPT !.perTeam[k] = perTeamAnswer(@, r)], lim)
       IN  /\ run' = n.run
           /\ lim' = n.lim
    /\ obs' = [obs EXCEPT !.http = @ + issued(world)]
    /\ UNCHANGED <<af, microQ, callers, world, variants>>

\* 496: sleep(80) of job j ends and its first statistics request leaves
JobSleepEnds(j) ==
    /\ run.pc = "stats" /\ MacroTask
    /\ j \in 1 .. Len(run.jobs)
    /\ run.jobs[j].pc = "sleep80"
    /\ run' = [run EXCEPT !.jobs[j].pc = "corners", !.jobs[j].i = 1,
                          !.jobs[j].slept = dispatchDelay]
    /\ UNCHANGED <<af, lim, microQ, callers, world, obs, variants>>

\* 497: a try of retryNullable(getCornersTotal) is answered
JobCornersAnswer(j) ==
    /\ run.pc = "stats" /\ MacroTask
    /\ j \in 1 .. Len(run.jobs)
    /\ run.jobs[j].pc = "corners"
    /\ LET v == getCornersTotal(apiFetch(world, StatsResp(run.fixtureIds[j], run.jobs[j].i))) IN
       IF v # Null \/ run.jobs[j].i >= tries
       THEN run' = [run EXCEPT !.jobs[j].cornersTotal = v, !.jobs[j].pc = "cards",
                               !.jobs[j].i = 1]
       ELSE run' = [run EXCEPT !.jobs[j].pc = "cornersWait"]
    /\ obs' = [obs EXCEPT !.http = @ + issued(world)]
    /\ UNCHANGED <<af, lim, microQ, callers, world, variants>>

\* 355: the sleep(baseWaitMs * i) of a retryNullable ends
JobRetry(j) ==
    /\ run.pc = "stats" /\ MacroTask
    /\ j \in 1 .. Len(run.jobs)
    /\ run.jobs[j].pc \in {"cornersWait", "cardsWait"}
    /\ run' = [run EXCEPT !.jobs[j].i = @ + 1,
                          !.jobs[j].pc = IF @ = "cornersWait" THEN "corners" ELSE "cards"]
    /\ UNCHANGED <<af, lim, microQ, callers, world, obs, variants>>

\* 498-499: a try of retryNullable(getCardsTotal) is answered; on the last
\* one the job stores its totals, the limiter's finally runs next(), and
\* with every job done Promise.all resolves and the board is assembled
JobCardsAnswer(j) ==
    /\ run.pc = "stats" /\ MacroTask
    /\ j \in 1 .. Len(run.jobs)
    /\ run.jobs[j].pc = "cards"
    /\ LET v == getCardsTotal(apiFetch(world, EventsResp(run.fixtureIds[j], run.jobs[j].i)))
           done == [run EXCEPT !.jobs[j].cardsTotal = v, !.jobs[j].pc = "done",
                       !.fixtureData = fixtureDataSet(@, run.fixtureIds[j],
                                                      run.jobs[j].cornersTotal, v)]
           n == next(lim, microQ)
       IN  IF v # Null \/ run.jobs[j].i >= tries
           THEN /\ run' = IF \A x \in 1 .. Len(done.jobs) : done.jobs[x].pc = "done"
                          THEN assemble(done) ELSE done
                /\ lim' = n.lim
                /\ microQ' = n.microQ
           ELSE /\ run' = [run EXCEPT !.jobs[j].pc = "cardsWait"]
                /\ UNCHANGED <<lim, microQ>>
    /\ obs' = [obs EXCEPT !.http = @ + issued(world)]
    /\ UNCHANGED <<af, callers, world, variants>>

\* 76-78: the queued job that next() resolved goes on: active++, sleep(80)
JobResume ==
    /\ run.pc = "stats"
    /\ microQ # <<>>
    /\ lim' = limitResume(lim)
    /\ run' = [run EXCEPT !.jobs[Head(microQ)].pc = "sleep80"]
    /\ microQ' = Tail(microQ)
    /\ UNCHANGED <<af, callers, world, obs, variants>>

\* 536: sleep(200) ends and the loop goes on
LeagueSleepEnds ==
    /\ run.pc = "sleep200" /\ MacroTask
    /\ run' = enterLeague([run EXCEPT !.li = @ + 1])
    /\ UNCHANGED <<af, lim, microQ, callers, world, obs, variants>>

worldIdle == [apiKey |-> TRUE, kinds |-> <<>>]

\* the kinds with many fixtures, and the kinds that go with one in a run
LargeKinds == {"FALLBACK", "MANY"}

BesideLarge == {"SEASON_FAIL", "E2E"}

\* the upstreams of a run: one kind per league, at most one of them large;
\* without a key no request is made
Worlds ==
    { [apiKey |-> TRUE, kinds |-> ks] : ks \in
        { f \in [1 .. Len(LEAGUES) -> LeagueKinds] :
            \/ \A i \in DOMAIN f : f[i] \notin LargeKinds
            \/ \E i \in DOMAIN f :
                  /\ f[i] \in LargeKinds
                  /\ \A j \in DOMAIN f \ {i} : f[j] \in BesideLarge } }
    \cup { [apiKey |-> FALSE, kinds |-> [i \in 1 .. Len(LEAGUES) |-> "E2E"]] }

(***************************************************************************)
(* The fetchers on their own: one call of getCornersTotal or of            *)
(* getCurrentSeason on any answer of the upstream, up to a size.           *)
(***************************************************************************)
\* the sizes of the answers
MaxRows == 2
MaxSeasons == 2

\* a Corner Kicks value as the provider sends it: null, a number, a number
\* in a string, or text that stands for no number
CornerValues == {NullValue, Num(0), Num(3), Num(7), Str("0"), Str("4"), Str("45%")}

\* one side's row: with a Corner Kicks entry, or without any
SideRows ==
    { StatsRow(v) : v \in CornerValues }
    \cup { [statistics |-> <<Stat("Ball Possession", Str("55%"))>>] }

SeqsUpTo(S, n) == UNION { [1 .. k -> S] : k \in 0 .. n }

\* the apiFetch results of GET /fixtures/statistics
StatsAnswers == {Fail} \cup { Ok(rows) : rows \in SeqsUpTo(SideRows, MaxRows) }

SeasonEntries == [year : {2023, 2024, 2025}, current : BOOLEAN]

\* the apiFetch results of GET /leagues
LeaguesAnswers ==
    {Fail, Ok(<<>>)}
    \cup { Ok(<<[seasons |-> ss]>>) : ss \in SeqsUpTo(SeasonEntries, MaxSeasons) }

\* getCornersTotal(fixtureId) is called and apiFetch gives it r
CornersLookup ==
    /\ obs.fn = ""
    /\ \E r \in StatsAnswers :
          obs' = [obs EXCEPT !.fn = "getCornersTotal", !.arg = r,
                             !.result = getCornersTotal(r)]
    /\ UNCHANGED <<af, lim, microQ, callers, world, run, variants>>

\* getCurrentSeason(leagueId) is called and apiFetch gives it r
SeasonLookup ==
    /\ obs.fn = ""
    /\ \E r \in LeaguesAnswers :
          obs' = [obs EXCEPT !.fn = "getCurrentSeason", !.arg = r,
                             !.result = getCurrentSeason(r)]
    /\ UNCHANGED <<af, lim, microQ, callers, world, run, variants>>

(***************************************************************************)
(* The variants and the refresh route at rest                              *)
(***************************************************************************)
\* a call of the cached client that was not made yet
cachedCallIdle ==
    [pc |-> "idle", cacheKey |-> "", ttlMs |-> 0, tries |-> 0, i |-> 0, attempt |-> 0,
     wakeAt |-> 0, requested |-> FALSE, fromCache |-> FALSE, fresh |-> FALSE,
     firstAfterFailure |-> FALSE,
     storedSince |-> FALSE, ok |-> FALSE, result |-> Null]

cachedIdle ==
    [now |-> 0, ticks |-> 0, made |-> 0, apiKey |-> TRUE, cache |-> <<>>, stored |-> <<>>,
     calls |-> <<>>]

sharedIdle == [cache |-> <<>>, inv |-> <<>>]

throttledIdle ==
    [now |-> 0, latencies |-> 0, lastRequestAt |-> 0, lastStart |-> Null, starts |-> 0,
     minGap |-> Null, lookups |-> <<>>]

cronIdle ==
    [pc |-> "idle", secret |-> "", apiKey |-> FALSE, kinds |-> <<>>, token |-> "",
     li |-> 0, teamsResp |-> <<>>, finished |-> <<>>, teams |-> <<>>, boards |-> <<>>,
     build |-> "none", payload |-> [updatedAt |-> "", boards |-> <<>>], threw |-> FALSE,
     status |-> 0, blob |-> [updatedAt |-> "", boards |-> <<>>],
     before |-> [updatedAt |-> "", boards |-> <<>>], puts |-> 0]

retryIdle ==
    [pc |-> "idle", tries |-> 0, baseWaitMs |-> 0, i |-> 0, calls |-> 0,
     answers |-> <<>>, sleeps |-> <<>>, result |-> Null]

VariantsIdle ==
    /\ cached = cachedIdle
    /\ shared = sharedIdle
    /\ throttled = throttledIdle
    /\ cron = cronIdle
    /\ retry = retryIdle

core == <<af, lim, microQ, callers, world, run, obs>>

\* leagueData.ts at rest, while a variant or the route runs
CoreIdle ==
    /\ af = afIdle
    /\ lim = limIdle
    /\ microQ = <<>>
    /\ callers = [c \in Callers |-> "idle"]
    /\ world = worldIdle
    /\ run = runIdle
    /\ obs = obsIdle

(***************************************************************************)
(* Specifications                                                          *)
(***************************************************************************)
InitLookups ==
    /\ af = afIdle
    /\ lim = limIdle
    /\ microQ = <<>>
    /\ callers = [c \in Callers |-> "idle"]
    /\ world = worldIdle
    /\ run = runIdle
    /\ obs = obsIdle
    /\ VariantsIdle

NextLookups ==
    \/ CornersLookup
    \/ SeasonLookup

SpecLookups == InitLookups /\ [][NextLookups]_vars

InitFetch ==
    /\ af \in { [afIdle EXCEPT !.apiKey = k] : k \in BOOLEAN }
    /\ lim = limIdle
    /\ microQ = <<>>
    /\ callers = [c \in Callers |-> "idle"]
    /\ world = worldIdle
    /\ run = runIdle
    /\ obs = obsIdle
    /\ VariantsIdle

NextFetch ==
    \/ ApiFetchCall
    \/ \E o \in HttpOutcomes : ApiFetchSettle(o)
    \/ ApiFetchWake

SpecFetch == InitFetch /\ [][NextFetch]_vars

\* every request settles (with a response or with fetch() throwing) and every
\* timer fires
SpecFetchLive ==
    /\ SpecFetch
    /\ WF_vars(\E o \in HttpOutcomes : ApiFetchSettle(o))
    /\ WF_vars(ApiFetchWake)

InitLimiter ==
    /\ af = afIdle
    /\ lim \in { [limIdle EXCEPT !.concurrency = n] : n \in 1 .. MaxConcurrency }
    /\ microQ = <<>>
    /\ callers = [c \in Callers |-> "idle"]
    /\ world = worldIdle
    /\ run = runIdle
    /\ obs = obsIdle
    /\ VariantsIdle

NextLimiter ==
    \/ \E c \in Callers : LimitCall(c)
    \/ \E c \in Callers : \E outcome \in {"fulfilled", "rejected"} : LimitSettle(c, outcome)
    \/ LimitResume

SpecLimiter == InitLimiter /\ [][NextLimiter]_vars

\* every wrapped function that runs settles in the end, and the event loop
\* runs every microtask
SpecLimiterLive ==
    /\ SpecLimiter
    /\ \A c \in Callers : WF_vars(\E outcome \in {"fulfilled", "rejected"} : LimitSettle(c, outcome))
    /\ WF_vars(LimitResume)

Init ==
    /\ af = afIdle
    /\ lim = limIdle
    /\ microQ = <<>>
    /\ callers = [c \in Callers |-> "idle"]
    /\ world \in Worlds
    /\ run = runIdle
    /\ obs = obsIdle
    /\ VariantsIdle

Next ==
    \/ GetLeagueBoards
    \/ SeasonAnswer
    \/ TeamsAnswer
    \/ FixturesAnswer
    \/ \E k \in 1 .. Len(run.perTeam) : TeamFallbackAnswer(k)
    \/ \E j \in 1 .. Len(run.jobs) : JobSleepEnds(j)
    \/ \E j \in 1 .. Len(run.jobs) : JobCornersAnswer(j)
    \/ \E j \in 1 .. Len(run.jobs) : JobRetry(j)
    \/ \E j \in 1 .. Len(run.jobs) : JobCardsAnswer(j)
    \/ JobResume
    \/ LeagueSleepEnds

Spec == Init /\ [][Next]_vars

(***************************************************************************)
(* What the properties are stated over: the boards pushed so far, and for  *)
(* each league the board computed from its own upstream alone.             *)
(***************************************************************************)
Boards == 1 .. Len(run.out)

TeamsOf(b) == 1 .. Len(run.out[b].teams)

Slots(b, t) == run.out[b].teams[t].matches

IsReal(m) == m.fixtureId # 0

\* the history of team t of board b: how its fixtures were got, and which
\* finished fixtures were found for it
Path(b, t) == run.hist[b][t].path

Found(b, t) == Cardinality(run.hist[b][t].found)

\* every fixture the upstream of a league can send, on any endpoint
UpstreamSeasons == {2023, 2024, 2025}

UpstreamTeamIds == {1, 2, 3, 4, 5, 6, 10, 11, 20}

UpstreamFixtures(kind) ==
    UNION { Range(FixturesResp(kind, s).response) : s \in UpstreamSeasons }
    \cup UNION { Range(TeamFixturesResp(kind, id).response) : id \in UpstreamTeamIds }

\* retryNullable run to its end, one lookup after the other
RECURSIVE cornersOf(_, _, _)
cornersOf(W, fixtureId, i) ==
    LET v == getCornersTotal(apiFetch(W, StatsResp(fixtureId, i)))
    IN  IF v # Null \/ i >= tries THEN v ELSE cornersOf(W, fixtureId, i + 1)

RECURSIVE cardsOf(_, _, _)
cardsOf(W, fixtureId, i) ==
    LET v == getCardsTotal(apiFetch(W, EventsResp(fixtureId, i)))
    IN  IF v # Null \/ i >= tries THEN v ELSE cardsOf(W, fixtureId, i + 1)

\* the fallback loop of one team run to its end
RECURSIVE soloFallback(_, _, _)
soloFallback(W, kind, P) ==
    IF P.todo = <<>> THEN P
    ELSE soloFallback(W, kind,
            perTeamAnswer(P, apiFetch(W, TeamFixturesResp(kind, Head(P.todo)))))

soloFixtureData(W, ids) ==
    [k \in 1 .. Len(ids) |->
        [fixtureId |-> ids[k], cornersTotal |-> cornersOf(W, ids[k], 1),
         cardsTotal |-> cardsOf(W, ids[k], 1)]]

soloAll(W, kind, season) ==
    LET r1 == apiFetch(W, FixturesResp(kind, season))
        r2 == apiFetch(W, FixturesResp(kind, season - 1))
    IN  (IF r1.ok THEN finishedOf(r1.response) ELSE <<>>)
        \o (IF r2.ok THEN finishedOf(r2.response) ELSE <<>>)

soloPerTeam(W, kind, teams, leagueFinished, aliasIndex) ==
    [i \in 1 .. Len(teams) |->
        soloFallback(W, kind,
            perTeamSync(teams[i], resolveEffectiveIds(teams[i], aliasIndex), leagueFinished))]

\* with withStats false no statistics or events lookup ever gives a value
soloTeams(W, perTeam, withStats) ==
    LET fixtureData == IF withStats THEN soloFixtureData(W, dedupFixtureIds(perTeam)) ELSE <<>>
    IN  [i \in 1 .. Len(perTeam) |-> filledTeam(perTeam[i], fixtureData)]

soloFilled(W, kind, league, season, teams, leagueFinished, withStats) ==
    [leagueId |-> league.leagueId, leagueName |-> league.leagueName,
     seasonUsed |-> season, error |-> "",
     teams |-> soloTeams(W, soloPerTeam(W, kind, teams, leagueFinished,
                                        buildFixtureAliasIndex(leagueFinished)),
                         withStats)]

soloWithSeason(W, kind, league, season, teams, withStats) ==
    IF teams.null \/ Len(teams.arr) = 0
    THEN errorBoard(league, season, "Could not load teams.")
    ELSE soloFilled(W, kind, league, season, teams.arr,
                    sortByDateDesc(byIdValues(<<>>, soloAll(W, kind, season))), withStats)

soloBoard(W, kind, league, season, withStats) ==
    IF season = Null \/ season = 0
    THEN errorBoard(league, Null, "Could not resolve season.")
    ELSE soloWithSeason(W, kind, league, season,
                        getTeamsForLeague(apiFetch(W, TeamsResp(kind, season))), withStats)

\* the board of league b as a run on that league alone gives it: it reads the
\* key, the league's configuration and the league's own upstream, nothing else
SoloBoard(W, b, withStats) ==
    soloBoard(W, W.kinds[b], LEAGUES[b],
              getCurrentSeason(apiFetch(W, LeaguesResp(W.kinds[b]))), withStats)

SeasonFails(W, b) ==
    getCurrentSeason(apiFetch(W, LeaguesResp(W.kinds[b]))) \in {Null, 0}

RosterFails(W, b) ==
    /\ ~SeasonFails(W, b)
    /\ LET teams == getTeamsForLeague(apiFetch(W,
                        TeamsResp(W.kinds[b], getCurrentSeason(apiFetch(W, LeaguesResp(W.kinds[b]))))))
       IN  teams.null \/ teams.arr = <<>>

(***************************************************************************)
(* C1: every team of every board has exactly 7 match slots, whether 0,     *)
(* 1 to 6, 7 or more than 7 finished fixtures were found for it, from the  *)
(* bulk list or from the per-team fallback.                                *)
(***************************************************************************)
C1_SevenSlots ==
    \A b \in Boards : \A t \in TeamsOf(b) : Len(Slots(b, t)) = 7

\* a board with a fallback team of more than 7 found fixtures and a bulk
\* team of fewer than 7
C1_Witness ==
    \E b \in Boards : \E t, u \in TeamsOf(b) :
        /\ Path(b, t) = "fallback" /\ Found(b, t) > 7 /\ Len(Slots(b, t)) = 7
        /\ Path(b, u) = "bulk" /\ Found(b, u) \in 1 .. 6 /\ Len(Slots(b, u)) = 7

(***************************************************************************)
(* C2: when season resolution or roster loading fails for a league, its    *)
(* board has teams = [] and a non-empty error, and every board of the run  *)
(* is the one its league gets on its own: the boards of the other leagues  *)
(* are what they are in a run where the failed league did not fail.        *)
(***************************************************************************)
C2_FailureIsolated ==
    /\ \A b \in Boards :
          (SeasonFails(world, b) \/ RosterFails(world, b)) =>
              run.out[b].teams = <<>> /\ run.out[b].error # ""
    /\ run.pc = "done" =>
          /\ Len(run.out) = Len(LEAGUES)
          /\ \A b \in Boards : run.out[b] = SoloBoard(world, b, TRUE)

\* a run is over in which a league failed and a later league has real slots
C2_Witness ==
    /\ run.pc = "done"
    /\ \E b, c \in Boards :
          /\ b < c
          /\ SeasonFails(world, b) \/ RosterFails(world, b)
          /\ run.out[b].teams = <<>>
          /\ \E t \in TeamsOf(c) : IsReal(Slots(c, t)[1])

(***************************************************************************)
(* C3: getLeagueBoards never rejects on an upstream failure, at any stage  *)
(* of any league: until it returns, a response, a timer or a microtask of  *)
(* the run is due, and it returns exactly one board per configured league, *)
(* in configuration order, each with a teams array.                        *)
(***************************************************************************)
\* what the run awaits is due to arrive
Pending ==
    \/ run.pc \in {"season", "teams", "fixtures", "sleep200"} /\ microQ = <<>>
    \/ /\ run.pc = "perTeam" /\ microQ = <<>>
       /\ \E k \in 1 .. Len(run.perTeam) : run.perTeam[k].todo # <<>>
    \/ /\ run.pc = "stats"
       /\ \/ microQ # <<>>
          \/ \E j \in 1 .. Len(run.jobs) :
                run.jobs[j].pc \in {"sleep80", "corners", "cornersWait", "cards", "cardsWait"}

C3_OneBoardPerLeague ==
    /\ Len(run.out) <= Len(LEAGUES)
    /\ \A b \in Boards :
          /\ run.out[b].leagueId = LEAGUES[b].leagueId
          /\ run.out[b].leagueName = LEAGUES[b].leagueName
          /\ DOMAIN run.out[b].teams = 1 .. Len(run.out[b].teams)
    /\ run.pc = "done" => Len(run.out) = Len(LEAGUES)
    /\ run.pc \in {"idle", "done"} \/ Pending

\* a run is over in which a roster request failed for one league and the
\* bulk fixtures requests failed for another
C3_Witness ==
    /\ run.pc = "done"
    /\ \E b, c \in Boards :
          /\ world.kinds[b] = "TEAMS_FAIL" /\ run.out[b].error # ""
          /\ world.kinds[c] = "BULK_FAIL" /\ run.out[c].teams # <<>>

(***************************************************************************)
(* C4: while one league's board is built, at most one stats job is         *)
(* dispatched per distinct fixture id, even when the fixture is in the     *)
(* lists of two teams. Job j is the lookup of run.fixtureIds[j].           *)
(***************************************************************************)
C4_OneJobPerFixture ==
    /\ Len(run.jobs) = Len(run.fixtureIds)
    /\ \A i, j \in 1 .. Len(run.fixtureIds) :
          i # j => run.fixtureIds[i] # run.fixtureIds[j]

\* the jobs are dispatched and a fixture is in the lists of two teams
C4_Witness ==
    /\ run.pc = "stats"
    /\ \E t, u \in 1 .. Len(run.perTeam) :
          /\ t # u
          /\ \E i \in 1 .. Len(run.perTeam[t].fixtures) :
             \E k \in 1 .. Len(run.perTeam[u].fixtures) :
                run.perTeam[t].fixtures[i].fixture.id = run.perTeam[u].fixtures[k].fixture.id

(***************************************************************************)
(* C5: for a limiter made by createLimiter(N), at no moment are more than  *)
(* N wrapped functions executing, whatever the timing of the limit() calls.*)
(***************************************************************************)
C5_AtMostNExecuting == Cardinality(Executing) <= lim.concurrency

(***************************************************************************)
(* C6: when the upstream answers 429 exactly K times (0 <= K <= 6) and     *)
(* then succeeds, apiFetch returns ok:true after exactly K+1 requests, and *)
(* its K waits are min(20000, 1000 * 2^(i-1)) ms for i = 1..K, which is    *)
(* non-decreasing and never above 20000 ms.                                *)
(***************************************************************************)
Is429(o) == o.kind = "response" /\ o.status = 429

IsSuccess(o) == o.kind = "response" /\ o.status = 200 /\ o.json

\* resps is K answers of 429 followed by one success
RateLimitedThenOk(K) ==
    /\ Len(af.resps) = K + 1
    /\ \A i \in 1 .. K : Is429(af.resps[i])
    /\ IsSuccess(af.resps[K + 1])

C6_BackoffAfter429 ==
    \A K \in 0 .. 6 :
        (af.pc = "done" /\ RateLimitedThenOk(K)) =>
            /\ af.result.ok
            /\ af.requests = K + 1
            /\ Len(af.sleeps) = K
            /\ \A i \in 1 .. K : af.sleeps[i].ms = Min(20000, 1000 * (2 ^ (i - 1)))
            /\ \A i \in 1 .. K : af.sleeps[i].ms <= 20000
            /\ \A i \in 1 .. K : i < K => af.sleeps[i].ms <= af.sleeps[i + 1].ms

C6_Witness == af.pc = "done" /\ RateLimitedThenOk(6) /\ af.sleeps[6].ms = 20000

(***************************************************************************)
(* C7: the sequence of real fixtures of each team does not depend on the   *)
(* outcome of the statistics and events lookups: but for cornersTotal and  *)
(* cardsTotal, every slot is the slot of the run in which no lookup gives  *)
(* a value.                                                                *)
(***************************************************************************)
Blind(m) == [m EXCEPT !.cornersTotal = Null, !.cardsTotal = Null]

BlindTeam(team) ==
    [team EXCEPT !.matches = [k \in 1 .. Len(team.matches) |-> Blind(team.matches[k])]]

BlindBoard(board) ==
    [board EXCEPT !.teams = [t \in 1 .. Len(board.teams) |-> BlindTeam(board.teams[t])]]

C7_FixturesIndependentOfStats ==
    run.pc \in {"sleep200", "done"} =>
        \A b \in Boards : BlindBoard(run.out[b]) = SoloBoard(world, b, FALSE)

\* a team has a real slot whose lookups gave nothing, after one with totals
C7_Witness ==
    \E b \in Boards : \E t \in TeamsOf(b) : \E i, k \in 1 .. 7 :
        /\ i < k
        /\ IsReal(Slots(b, t)[i]) /\ Slots(b, t)[i].cornersTotal # Null
        /\ IsReal(Slots(b, t)[k])
        /\ Slots(b, t)[k].cornersTotal = Null /\ Slots(b, t)[k].cardsTotal = Null

(***************************************************************************)
(* C8: every real slot (fixtureId # 0) comes from a fixture whose status   *)
(* is FT, AET or PEN, on the bulk path and on the fallback path alike.     *)
(***************************************************************************)
C8_OnlyFinished ==
    \A b \in Boards : \A t \in TeamsOf(b) : \A k \in 1 .. Len(Slots(b, t)) :
        IsReal(Slots(b, t)[k]) =>
            /\ \E fx \in UpstreamFixtures(world.kinds[b]) :
                  fx.fixture.id = Slots(b, t)[k].fixtureId
            /\ \A fx \in UpstreamFixtures(world.kinds[b]) :
                  fx.fixture.id = Slots(b, t)[k].fixtureId =>
                      fx.fixture.status \in {"FT", "AET", "PEN"}

\* a board with real slots on both paths, of a league whose upstream also
\* sends fixtures that are not finished
C8_Witness ==
    \E b \in Boards : \E t, u \in TeamsOf(b) :
        /\ Path(b, t) = "fallback" /\ IsReal(Slots(b, t)[1])
        /\ Path(b, u) = "bulk" /\ IsReal(Slots(b, u)[1])
        /\ \E fx \in UpstreamFixtures(world.kinds[b]) :
              fx.fixture.status \in {"NS", "1H", "PST", "CANC"}

(***************************************************************************)
(* C9: in each team's slots the real slots come before the blank ones, in  *)
(* non-increasing date order; they are min(7, finished fixtures found for  *)
(* the team) many; a blank slot has fixtureId 0, opponent "-" and null     *)
(* goalsTotal, cornersTotal and cardsTotal.                                *)
(***************************************************************************)
IsBlank(m) ==
    /\ m.fixtureId = 0
    /\ m.opponent = "-"
    /\ m.goalsTotal = Null /\ m.cornersTotal = Null /\ m.cardsTotal = Null

C9_RealThenBlank ==
    \A b \in Boards : \A t \in TeamsOf(b) :
        /\ \A k \in 1 .. Len(Slots(b, t)) :
              IF k <= Min(7, Found(b, t)) THEN IsReal(Slots(b, t)[k])
              ELSE IsBlank(Slots(b, t)[k])
        /\ \A k \in 1 .. (Min(7, Found(b, t)) - 1) :
              Slots(b, t)[k].date >= Slots(b, t)[k + 1].date

\* a team with three found fixtures: three real slots, newest first, then blanks
C9_Witness ==
    \E b \in Boards : \E t \in TeamsOf(b) :
        /\ Found(b, t) = 3
        /\ IsReal(Slots(b, t)[3]) /\ IsBlank(Slots(b, t)[4])
        /\ Slots(b, t)[1].date > Slots(b, t)[3].date

(***************************************************************************)
(* C10: for every real slot goalsTotal is the fixture's home goals plus    *)
(* away goals (null as 0); a non-null cornersTotal is the sum of the       *)
(* "Corner Kicks" values of the sides of a statistics answer; a non-null   *)
(* cardsTotal is the number of yellow-card events plus the number of       *)
(* red-card events of an events answer, no other event counted.            *)
(***************************************************************************)
GoalsOf(fx) ==
    (IF fx.goals.home = Null THEN 0 ELSE fx.goals.home)
    + (IF fx.goals.away = Null THEN 0 ELSE fx.goals.away)

\* the number a statistics value stands for, 0 when it stands for none
NumericValue(v) ==
    IF v.t = "num" THEN v.n
    ELSE IF v.t = "str" /\ v.s \in {"0", "4"} THEN (IF v.s = "4" THEN 4 ELSE 0)
    ELSE 0

CornerKicksOf(row) ==
    LET at == { i \in 1 .. Len(row.statistics) : row.statistics[i].type = "Corner Kicks" }
    IN  IF at = {} THEN 0 ELSE NumericValue(row.statistics[CHOOSE i \in at : TRUE].value)

RECURSIVE CornerKicksSum(_)
CornerKicksSum(rows) ==
    IF rows = <<>> THEN 0 ELSE CornerKicksOf(Head(rows)) + CornerKicksSum(Tail(rows))

YellowCards(events) ==
    Cardinality({ i \in 1 .. Len(events) :
        events[i].type = "Card" /\ events[i].detail \in {"Yellow Card", "Second Yellow card"} })

RedCards(events) ==
    Cardinality({ i \in 1 .. Len(events) :
        events[i].type = "Card" /\ events[i].detail = "Red Card" })

SlotTotalsRight(kind, m) ==
    /\ \A fx \in UpstreamFixtures(kind) :
          fx.fixture.id = m.fixtureId => m.goalsTotal = GoalsOf(fx)
    /\ m.cornersTotal # Null =>
          \E i \in 1 .. tries :
              /\ StatsResp(m.fixtureId, i).ok
              /\ m.cornersTotal = CornerKicksSum(StatsResp(m.fixtureId, i).response)
    /\ m.cardsTotal # Null =>
          \E i \in 1 .. tries :
              /\ EventsResp(m.fixtureId, i).ok
              /\ m.cardsTotal = YellowCards(EventsResp(m.fixtureId, i).response)
                                + RedCards(EventsResp(m.fixtureId, i).response)

C10_TotalsRight ==
    \A b \in Boards : \A t \in TeamsOf(b) : \A k \in 1 .. Len(Slots(b, t)) :
        IsReal(Slots(b, t)[k]) => SlotTotalsRight(world.kinds[b], Slots(b, t)[k])

\* fixture 101 (2-1, corners 5 and "4", two yellows and a red among a goal
\* and a VAR event) and fixture 103 (1-null) are slots of a team
C10_Witness ==
    \E b \in Boards : \E t \in TeamsOf(b) : \E i, k \in 1 .. 7 :
        /\ Slots(b, t)[i].fixtureId = 101
        /\ Slots(b, t)[i].goalsTotal = 3
        /\ Slots(b, t)[i].cornersTotal = 9
        /\ Slots(b, t)[i].cardsTotal = 3
        /\ Slots(b, t)[k].fixtureId = 103
        /\ Slots(b, t)[k].goalsTotal = 1

(***************************************************************************)
(* C11: getCornersTotal yields null, never 0, when the statistics request  *)
(* fails, returns no rows, or no returned side has a numeric Corner Kicks  *)
(* value; it yields 0 only when the reported corner values sum to 0.       *)
(***************************************************************************)
\* the Corner Kicks values of the rows that are numbers
IsNumber(v) == v.t = "num" \/ (v.t = "str" /\ v.s \in {"0", "4"})

NumericCorners(rows) ==
    SelectSeq(rows, LAMBDA row :
        \E i \in 1 .. Len(row.statistics) :
            row.statistics[i].type = "Corner Kicks" /\ IsNumber(row.statistics[i].value))

NoEventData(r) == ~r.ok \/ r.response = <<>>

C12_NoEventsNoCards ==
    \A b \in Boards : \A t \in TeamsOf(b) : \A k \in 1 .. Len(Slots(b, t)) :
        (/\ IsReal(Slots(b, t)[k])
         /\ \A i \in 1 .. tries :
               NoEventData(apiFetch(world, EventsResp(Slots(b, t)[k].fixtureId, i))))
            => Slots(b, t)[k].cardsTotal = Null

(***************************************************************************)
(* C13: apiFetch never rejects: with a missing key, 429 on every attempt,  *)
(* a non-2xx status, a network failure on every attempt or an unparsable   *)
(* body, the call ends, within its attempts, in a tagged {ok: false,       *)
(* error} result; it ends in ok: true only on a 2xx answer that parses.    *)
(***************************************************************************)
LastAnswer == af.resps[Len(af.resps)]

C13_AlwaysTagged ==
    /\ af.pc \in {"idle", "fetch", "sleep", "done"}
    /\ af.requests <= maxAttempts /\ Len(af.resps) <= af.requests
    /\ af.pc = "done" =>
          /\ af.result.ok \in BOOLEAN
          /\ ~af.result.ok => af.result.error # ""
          /\ af.result.ok <=>
                /\ af.apiKey /\ af.resps # <<>>
                /\ LastAnswer.kind = "response"
                /\ LastAnswer.status \in 200 .. 299 /\ LastAnswer.json

\* every attempt got a 200 whose body does not parse, and the call is over
C13_Witness ==
    /\ af.pc = "done" /\ ~af.result.ok
    /\ Len(af.resps) = maxAttempts
    /\ \A i \in 1 .. Len(af.resps) :
          af.resps[i].kind = "response" /\ af.resps[i].status = 200 /\ ~af.resps[i].json

(***************************************************************************)
(* C14: with no API key configured every apiFetch call of a run fails at   *)
(* once, no HTTP request is issued, and getLeagueBoards returns for every  *)
(* configured league a board with teams = [] and the same non-empty error. *)
(***************************************************************************)
C14_NoKeyNoRequests ==
    ~world.apiKey =>
        /\ obs.http = 0
        /\ \A b \in Boards :
              /\ run.out[b].teams = <<>>
              /\ run.out[b].error # ""
              /\ run.out[b].error = run.out[1].error
        /\ run.pc \in {"idle", "season", "done"}
        /\ run.pc = "done" => Len(run.out) = Len(LEAGUES)

\* the run without a key is over, with a board for every league
C14_Witness ==
    /\ ~world.apiKey /\ world.kinds # <<>>
    /\ run.pc = "done"
    /\ Len(run.out) = Len(LEAGUES) /\ Len(run.out) > 1
    /\ run.out[Len(run.out)].error = "Could not resolve season."

(***************************************************************************)
(* C15: when every attempt of an apiFetch call is answered 429, the call   *)
(* ends after its 7 attempts with a failure that reports the rate limit:   *)
(* status 429 or a rate-limit message.                                     *)
(***************************************************************************)
ReportsRateLimit(result) == result.status = 429 \/ result.error = "Rate limited"

C15_ExhaustionReportsRateLimit ==
    (/\ af.pc = "done"
     /\ Len(af.resps) = maxAttempts
     /\ \A i \in 1 .. Len(af.resps) : Is429(af.resps[i]))
        => /\ ~af.result.ok
           /\ af.requests = 7
           /\ ReportsRateLimit(af.result)

(***************************************************************************)
(* C16: when a request of apiFetch is answered with a 5xx status, apiFetch *)
(* retries after a backoff wait, up to its attempt bound: the call is not  *)
(* over with that answer unless it was the last attempt.                   *)
(***************************************************************************)
IsServerError(o) == o.kind = "response" /\ o.status \in 500 .. 599

C16_ServerErrorRetried ==
    \A i \in 1 .. Len(af.resps) :
        (IsServerError(af.resps[i]) /\ i < maxAttempts) =>
            ~(af.pc = "done" /\ Len(af.resps) = i)

(***************************************************************************)
(* C17: when a request is answered with a 4xx status other than 429,       *)
(* apiFetch makes no further request and no backoff sleep, and returns     *)
(* ok: false carrying that HTTP status.                                    *)
(***************************************************************************)
IsClientError(o) == o.kind = "response" /\ o.status \in 400 .. 499 /\ o.status # 429

C17_ClientErrorReturnsAtOnce ==
    \A i \in 1 .. Len(af.resps) :
        IsClientError(af.resps[i]) =>
            /\ i = Len(af.resps) /\ af.requests = i
            /\ Len(af.sleeps) = i - 1
            /\ af.pc = "done"
            /\ ~af.result.ok /\ af.result.status = af.resps[i].status

\* the first answer is a 404 and the call is over with it
C17_Witness ==
    /\ af.pc = "done"
    /\ Len(af.resps) = 1 /\ af.resps[1].kind = "response" /\ af.resps[1].status = 404
    /\ af.requests = 1 /\ af.sleeps = <<>>
    /\ af.result.status = 404

(***************************************************************************)
(* C18: when a wrapped function rejects, its slot is released exactly      *)
(* once, as on success, and its caller gets the rejection; so, provided    *)
(* every wrapped function settles in the end, every queued caller runs in  *)
(* the end and the active count returns to 0.                              *)
(***************************************************************************)
\* the step in which the function of caller c settles with the outcome
Settles(c, outcome) == callers[c] = "running" /\ callers'[c] = outcome

C18_ReleaseOnRejection ==
    /\ [][\A c \in Callers :
            /\ Settles(c, "rejected") => lim'.active = lim.active - 1
            /\ Settles(c, "fulfilled") => lim'.active = lim.active - 1]_vars
    /\ [](lim.active = Cardinality(Executing))
    /\ \A c \in Callers : (callers[c] = "queued") ~> (callers[c] = "running")
    /\ <>[](lim.active = 0 /\ lim.queue = <<>>)

\* a function has rejected and a caller that waited behind it is running
C18_Witness ==
    /\ \E c \in Callers : callers[c] = "rejected"
    /\ \E d \in Callers :
          /\ callers[d] = "running"
          /\ \E i \in 1 .. Len(obs.resumed) : obs.resumed[i] = d

(***************************************************************************)
(* C19: the callers that had to wait start in the order in which they      *)
(* were queued: the sequence of started waiters is always a prefix of the  *)
(* sequence of queued callers.                                             *)
(***************************************************************************)
IsPrefix(s, q) == Len(s) <= Len(q) /\ \A i \in 1 .. Len(s) : s[i] = q[i]

C19_WaitersStartInOrder == IsPrefix(obs.resumed, obs.queued)

\* two callers waited at the same time and both have started since
C19_Witness ==
    /\ Len(obs.resumed) >= 2
    /\ obs.resumed[1] # obs.resumed[2]
    /\ lim.queue = <<>>
    /\ Len(obs.queued) >= 2

(***************************************************************************)
(* C20: getCurrentSeason gives the year of the season flagged current      *)
(* when there is one, otherwise the maximum year of the league's season    *)
(* list, and reports failure (null) when the list is empty or the request  *)
(* fails.                                                                  *)
(***************************************************************************)
SeasonsOf(r) == IF ~r.ok \/ r.response = <<>> THEN <<>> ELSE r.response[1].seasons

MaximumYear(ss) ==
    CHOOSE y \in {ss[i].year : i \in 1 .. Len(ss)} :
        \A i \in 1 .. Len(ss) : ss[i].year <= y

C20_CurrentElseMaximumYear ==
    obs.fn = "getCurrentSeason" =>
        LET ss == SeasonsOf(obs.arg) IN
        IF ss = <<>> THEN obs.result = Null
        ELSE IF \E i \in 1 .. Len(ss) : ss[i].current
             THEN \E i \in 1 .. Len(ss) : ss[i].current /\ obs.result = ss[i].year
             ELSE obs.result = MaximumYear(ss)

(***************************************************************************)
(* C21: a roster team whose normalised name matches (equality,             *)
(* containment, or token overlap of at least 0.6) the name of a            *)
(* participant of the league's finished fixtures that carries another      *)
(* numeric id gets from resolveEffectiveIds a set with the roster id and   *)
(* that fixture-side id, and its match list has at least one real slot.    *)
(***************************************************************************)
\* the merged list of the league's finished fixtures, newest first
BulkList(W, kind, season) == sortByDateDesc(byIdValues(<<>>, soloAll(W, kind, season)))

\* the participants of the fixtures of a list, in the order of the list
Participants(list) ==
    Concat([i \in 1 .. Len(list) |-> <<list[i].teams.home, list[i].teams.away>>])

\* the per-team results of the league in progress are there
Resolved == run.pc \in {"perTeam", "stats", "sleep200"}

\* team k of the league in progress has a real first slot on the board
FirstSlotReal(k) ==
    run.pc = "sleep200" => IsReal(run.out[Len(run.out)].teams[k].matches[1])

C21_EveryMatchingIdIsAlias ==
    Resolved =>
        \A k \in 1 .. Len(run.perTeam) :
            LET T == run.perTeam[k].team
                ps == Participants(BulkList(world, Kind, run.season))
            IN  \A i \in 1 .. Len(ps) :
                    (ps[i].id # T.teamId /\ nameMatches(Chars[T.name], Chars[ps[i].name])) =>
                        /\ {T.teamId, ps[i].id} \subseteq Range(run.perTeam[k].effectiveIds)
                        /\ run.perTeam[k].fixtures # <<>>
                        /\ FirstSlotReal(k)

\* C21 as the code has it: the ids are those of the participants that carry
\* the team's own normalised name if there are any, otherwise those of the
\* participants that carry the first name of the list that matches; either
\* way the match list has at least one real slot.
IdsNamed(ps, n) == { ps[i].id : i \in { j \in 1 .. Len(ps) : normName(Chars[ps[j].name]) = n } }

AliasIds(T, ps) ==
    LET n == normName(Chars[T.name])
        fuzzy == { i \in 1 .. Len(ps) : nameMatches(Chars[T.name], Chars[ps[i].name]) }
        first == CHOOSE i \in fuzzy : \A j \in fuzzy : i <= j
    IN  IF IdsNamed(ps, n) # {} THEN IdsNamed(ps, n)
        ELSE IF fuzzy # {} THEN IdsNamed(ps, normName(Chars[ps[first].name]))
        ELSE {}

C21_FirstMatchingNameIsAlias ==
    Resolved =>
        \A k \in 1 .. Len(run.perTeam) :
            LET T == run.perTeam[k].team
                ps == Participants(BulkList(world, Kind, run.season))
            IN  /\ Range(run.perTeam[k].effectiveIds) = {T.teamId} \cup AliasIds(T, ps)
                /\ AliasIds(T, ps) # {} =>
                      run.perTeam[k].fixtures # <<>> /\ FirstSlotReal(k)

\* the board is built of a league whose roster has "Club Ame'rica" under one
\* id and whose fixtures have "America" under another
C21_Witness ==
    /\ run.pc = "sleep200"
    /\ \E k \in 1 .. Len(run.perTeam) :
          /\ run.perTeam[k].team.name = "Club Ame'rica"
          /\ run.perTeam[k].team.teamId = 10
          /\ Range(run.perTeam[k].effectiveIds) = {10, 20}
          /\ IsReal(run.out[Len(run.out)].teams[k].matches[1])

(***************************************************************************)
(* C22: the per-team fixture query (team id only) is issued for a team if  *)
(* and only if the team matched no fixture of the merged bulk list; a team *)
(* with at least one bulk match gets its slots from the bulk list only.    *)
(***************************************************************************)
\* the fixtures of the merged bulk list that team T of board b matches
BulkMatches(W, b, T) ==
    LET list == BulkList(W, W.kinds[b], run.out[b].seasonUsed)
        ids == resolveEffectiveIds(T, buildFixtureAliasIndex(list))
    IN  SelectSeq(list, LAMBDA fx : teamInFixture(T, ids, fx))

RealIds(matches) == { matches[i].fixtureId : i \in { j \in 1 .. Len(matches) : IsReal(matches[j]) } }

C22_FallbackIffNoBulkMatch ==
    /\ run.pc = "perTeam" =>
          \A k \in 1 .. Len(run.perTeam) :
              run.perTeam[k].todo # <<>> =>
                  ~\E fx \in Range(BulkList(world, Kind, run.season)) :
                        teamInFixture(run.perTeam[k].team, run.perTeam[k].effectiveIds, fx)
    /\ run.pc \in {"sleep200", "done"} =>
          \A b \in Boards : \A t \in TeamsOf(b) :
              LET hits == BulkMatches(world, b, run.out[b].teams[t]) IN
              /\ Path(b, t) = "fallback" <=> hits = <<>>
              /\ hits # <<>> =>
                    RealIds(Slots(b, t)) = { fx.fixture.id : fx \in Range(slice(hits, 7)) }

\* a board with a team that took the fallback and got fixtures from it, and
\* a team that has its fixtures from the bulk list
C22_Witness ==
    /\ run.pc = "sleep200"
    /\ \E b \in Boards : \E t, u \in TeamsOf(b) :
          /\ Path(b, t) = "fallback" /\ IsReal(Slots(b, t)[1])
          /\ BulkMatches(world, b, run.out[b].teams[t]) = <<>>
          /\ Path(b, u) = "bulk" /\ IsReal(Slots(b, u)[1])

(***************************************************************************)
(* C23: for a league whose season and roster were resolved, the board      *)
(* lists every roster team exactly once, in roster order; a team for which *)
(* the bulk list and the per-team fallback both gave no fixture is on the  *)
(* board too, with 7 blank slots.                                          *)
(***************************************************************************)
\* the roster the upstream sends for the league of board b
RosterOf(W, b) == apiFetch(W, TeamsResp(W.kinds[b], run.out[b].seasonUsed)).response

C23_EveryRosterTeamOnce ==
    \A b \in Boards :
        (~SeasonFails(world, b) /\ ~RosterFails(world, b)) =>
            LET roster == RosterOf(world, b) IN
            /\ run.out[b].error = ""
            /\ Len(run.out[b].teams) = Len(roster)
            /\ \A t \in TeamsOf(b) :
                  /\ run.out[b].teams[t].teamId = roster[t].team.id
                  /\ run.out[b].teams[t].name = roster[t].team.name
                  /\ Found(b, t) = 0 =>
                        /\ Len(Slots(b, t)) = 7
                        /\ \A i \in 1 .. 7 : IsBlank(Slots(b, t)[i])

\* a board with a team that took the fallback, found no fixture at all and
\* has 7 blank slots, beside a team that has real slots
C23_Witness ==
    \E b \in Boards : \E t, u \in TeamsOf(b) :
        /\ Path(b, t) = "fallback" /\ Found(b, t) = 0
        /\ Len(Slots(b, t)) = 7 /\ \A i \in 1 .. 7 : IsBlank(Slots(b, t)[i])
        /\ IsReal(Slots(b, u)[1])

(***************************************************************************)
(* C24: within one league the stages run in strict order: the roster       *)
(* request is in flight only after the season was resolved, the bulk       *)
(* fixture requests only after a non-empty roster was obtained, and the    *)
(* stats jobs exist only once every team's fixture list is final; the step *)
(* that answers a failed season resolution goes straight to the next       *)
(* league, so that no roster, fixture or stats request is issued for the   *)
(* failed one.                                                             *)
(***************************************************************************)
\* the run is inside the pass of league run.li
InLeague == run.pc \in {"season", "teams", "fixtures", "perTeam", "stats", "sleep200"}

SeasonResolved ==
    /\ ~SeasonFails(world, run.li)
    /\ run.season = getCurrentSeason(apiFetch(world, LeaguesResp(Kind)))

RosterObtained ==
    /\ run.teams # <<>>
    /\ run.teams = getTeamsForLeague(apiFetch(world, TeamsResp(Kind, run.season))).arr

StagesInOrder ==
    /\ run.pc = "teams" => SeasonResolved
    /\ run.pc = "fixtures" => SeasonResolved /\ RosterObtained
    /\ run.pc = "perTeam" => SeasonResolved /\ RosterObtained /\ run.jobs = <<>>
    /\ run.jobs # <<>> =>
          /\ run.pc \in {"stats", "sleep200"}
          /\ SeasonResolved /\ RosterObtained
          /\ Len(run.perTeam) = Len(run.teams)
          /\ \A k \in 1 .. Len(run.perTeam) : run.perTeam[k].todo = <<>>
    /\ (InLeague /\ run.pc # "season") => ~SeasonFails(world, run.li)

\* the step that takes the answer of a failed season resolution
FailedSeasonStep ==
    (run.pc = "season" /\ SeasonFails(world, run.li) /\ run' # run) =>
        /\ run'.li = run.li + 1
        /\ run'.pc \in {"season", "done"}
        /\ Len(run'.out) = Len(run.out) + 1
        /\ run'.jobs = <<>> /\ run'.perTeam = <<>> /\ run'.teams = <<>>
        /\ obs'.http = obs.http + issued(world)

C24_StagesInOrder == [](StagesInOrder) /\ [][FailedSeasonStep]_vars

\* the stats requests of the second league are in flight, after the season
\* resolution of the first league failed and a fallback of the second ended
C24_Witness ==
    /\ run.pc = "stats" /\ run.li = 2
    /\ SeasonFails(world, 1) /\ Len(run.out) = 1
    /\ \E k \in 1 .. Len(run.perTeam) : run.perTeam[k].path = "fallback"
    /\ \E j \in 1 .. Len(run.jobs) : run.jobs[j].pc = "corners"

(***************************************************************************)
(* C25: during getLeagueBoards at most 2 per-fixture stats jobs execute at *)
(* the same time (the limiter is made with bound 2), and each job sleeps   *)
(* 80 ms before its first request.                                         *)
(***************************************************************************)
\* the jobs whose function was called and has not settled
ExecutingJobs ==
    { j \in 1 .. Len(run.jobs) :
        run.jobs[j].pc \in {"sleep80", "corners", "cornersWait", "cards", "cardsWait"} }

C25_TwoJobsAfterDelay ==
    /\ run.pc # "idle" => lim.concurrency = 2
    /\ Cardinality(ExecutingJobs) <= 2
    /\ \A j \in 1 .. Len(run.jobs) :
          IF run.jobs[j].pc \in {"queued", "sleep80"}
          THEN run.jobs[j].i = 0 /\ run.jobs[j].slept = 0
          ELSE run.jobs[j].i >= 1 /\ run.jobs[j].slept = 80

\* two jobs execute, one of them has slept and awaits its first statistics
\* answer, and a third job waits in the limiter's queue
C25_Witness ==
    /\ run.pc = "stats"
    /\ Cardinality(ExecutingJobs) = 2
    /\ \E j \in ExecutingJobs :
          run.jobs[j].pc = "corners" /\ run.jobs[j].i = 1 /\ run.jobs[j].slept = 80
    /\ \E j \in 1 .. Len(run.jobs) : run.jobs[j].pc = "queued"
    /\ lim.queue # <<>>

(***************************************************************************)
(* C26: the number of upstream HTTP requests in flight at the same time    *)
(* during getLeagueBoards never exceeds the limiter's bound of 2, also     *)
(* when the bulk fixture list is empty and every roster team takes the     *)
(* per-team fallback.                                                      *)
(***************************************************************************)
\* the requests that were sent and are not answered yet: the one of the
\* sequential stage, one per team whose fallback loop awaits an answer, one
\* per job that awaits a statistics or an events answer
FallbacksInFlight == { k \in 1 .. Len(run.perTeam) : run.perTeam[k].todo # <<>> }

JobsInFlight == { j \in 1 .. Len(run.jobs) : run.jobs[j].pc \in {"corners", "cards"} }

InFlight ==
    IF ~world.apiKey THEN 0
    ELSE CASE run.pc \in {"season", "teams", "fixtures"} -> 1
           [] run.pc = "perTeam" -> Cardinality(FallbacksInFlight)
           [] run.pc = "stats" -> Cardinality(JobsInFlight)
           [] OTHER -> 0

C26_RequestsInFlightBounded == InFlight <= 2

(***************************************************************************)
(* C27: given identical upstream responses, two runs of getLeagueBoards    *)
(* return deep-equal board lists, whatever the order in which the          *)
(* concurrent per-team fallback fetches and per-fixture stats jobs         *)
(* complete: in every interleaving each board is the one value that the    *)
(* upstream responses determine.                                           *)
(***************************************************************************)
\* the board list as a function of the upstream responses alone
BoardsOf(W) == [b \in 1 .. Len(LEAGUES) |-> SoloBoard(W, b, TRUE)]

C27_SameBoardsInAnyOrder ==
    /\ run.pc = "sleep200" => run.out[Len(run.out)] = BoardsOf(world)[Len(run.out)]
    /\ run.pc = "done" => run.out = BoardsOf(world)

\* a board is built whose stats jobs did not complete in the order of their
\* dispatch, and one of whose teams took the fallback
C27_Witness ==
    /\ run.pc = "sleep200"
    /\ \E i \in 1 .. Len(run.fixtureData) : run.fixtureData[i].fixtureId # run.fixtureIds[i]
    /\ \E k \in 1 .. Len(run.perTeam) : run.perTeam[k].path = "fallback"
    /\ run.out[Len(run.out)] = BoardsOf(world)[Len(run.out)]

(***************************************************************************)
(* C28: no finished fixture is a real slot in the match lists of more than *)
(* two teams of a league: it is in the lists of its two participants only. *)
(***************************************************************************)
\* the teams of board b that have the fixture as a real slot
TeamsShowing(b, fixtureId) == { t \in TeamsOf(b) : fixtureId \in RealIds(Slots(b, t)) }

C28_FixtureInAtMostTwoLists ==
    \A b \in Boards :
        \A fixtureId \in UNION { RealIds(Slots(b, t)) : t \in TeamsOf(b) } :
            Cardinality(TeamsShowing(b, fixtureId)) <= 2

(***************************************************************************)
(* C29: when the events feed of a fixture is unavailable (its request      *)
(* fails on every try), the slot's card total is derived from the "Yellow  *)
(* Cards" and "Red Cards" values of the statistics answer when these are   *)
(* present, instead of being reported as unavailable.                      *)
(***************************************************************************)
CardStatsOf(row) ==
    SelectSeq(row.statistics, LAMBDA s : s.type \in {"Yellow Cards", "Red Cards"} /\ IsNumber(s.value))

RECURSIVE SumValues(_)
SumValues(stats) ==
    IF stats = <<>> THEN 0 ELSE NumericValue(Head(stats).value) + SumValues(Tail(stats))

\* the card statistics of all the rows of a statistics answer
CardStats(rows) == Concat([i \in 1 .. Len(rows) |-> CardStatsOf(rows[i])])

EventsUnavailable(W, fixtureId) ==
    \A i \in 1 .. tries : ~apiFetch(W, EventsResp(fixtureId, i)).ok

C29_CardsFromStatistics ==
    \A b \in Boards : \A t \in TeamsOf(b) : \A k \in 1 .. Len(Slots(b, t)) :
        LET m == Slots(b, t)[k] IN
        (IsReal(m) /\ EventsUnavailable(world, m.fixtureId)) =>
            \A i \in 1 .. tries :
                LET r == apiFetch(world, StatsResp(m.fixtureId, i)) IN
                (r.ok /\ CardStats(r.response) # <<>>) =>
                    m.cardsTotal = SumValues(CardStats(r.response))

(***************************************************************************)
(* C30: a roster request that succeeds but returns no teams gives a league *)
(* error that can be told from the error given when the roster request     *)
(* itself fails.                                                           *)
(***************************************************************************)
\* the answer to the roster request of the league of board b
RosterAnswer(W, b) ==
    apiFetch(W, TeamsResp(W.kinds[b], getCurrentSeason(apiFetch(W, LeaguesResp(W.kinds[b])))))

RosterRequestFails(W, b) == ~SeasonFails(W, b) /\ ~RosterAnswer(W, b).ok

RosterEmpty(W, b) ==
    ~SeasonFails(W, b) /\ RosterAnswer(W, b).ok /\ RosterAnswer(W, b).response = <<>>

C30_EmptyRosterToldApart ==
    \A b, c \in Boards :
        (RosterRequestFails(world, b) /\ RosterEmpty(world, c)) =>
            run.out[b].error # run.out[c].error

(***************************************************************************)
(* C31: when the season and the roster of a league resolve but the fixture *)
(* stage fails irrecoverably (both bulk requests fail and every per-team   *)
(* fallback returns nothing), the board of the league carries a non-empty  *)
(* error and still lists every roster team.                                *)
(***************************************************************************)
BulkRequestsFail(W, b) ==
    /\ ~apiFetch(W, FixturesResp(W.kinds[b], run.out[b].seasonUsed)).ok
    /\ ~apiFetch(W, FixturesResp(W.kinds[b], run.out[b].seasonUsed - 1)).ok

FallbacksReturnNothing(W, b) ==
    \A t \in TeamsOf(b) :
        getTeamFinishedFixturesNoSeason(
            apiFetch(W, TeamFixturesResp(W.kinds[b], run.out[b].teams[t].teamId))) = <<>>

FixtureStageFails(W, b) ==
    /\ ~SeasonFails(W, b) /\ ~RosterFails(W, b)
    /\ BulkRequestsFail(W, b)
    /\ FallbacksReturnNothing(W, b)

C31_FixtureFailureReported ==
    \A b \in Boards :
        FixtureStageFails(world, b) =>
            /\ run.out[b].error # ""
            /\ Len(run.out[b].teams) = Len(RosterOf(world, b))
            /\ \A t \in TeamsOf(b) :
                  run.out[b].teams[t].teamId = RosterOf(world, b)[t].team.id

(***************************************************************************)
(* C36: one apiFetch call issues at most 7 HTTP requests under any         *)
(* interleaving of 429 responses and network failures, and always          *)
(* terminates with a result.                                               *)
(***************************************************************************)
AtMostSevenRequests == af.requests <= 7

EndsWithResult == af.pc = "done" => af.result # NoResult /\ af.result.ok \in BOOLEAN

C36_SevenRequestsThenResult ==
    /\ [](AtMostSevenRequests /\ EndsWithResult)
    /\ (af.pc # "idle") ~> (af.pc = "done")
    /\ [][af.pc = "done" => af' = af]_vars

\* seven requests, 429 responses and network failures mixed, the last answered
C36_Witness ==
    /\ af.pc = "done" /\ af.requests = 7 /\ af.result.ok
    /\ \E i, j \in 1 .. 6 :
          /\ i < j
          /\ af.resps[i].kind = "throw" /\ af.resps[j].kind = "response"
          /\ af.resps[j].status = 429
    /\ \E i, j \in 1 .. 6 :
          /\ i < j
          /\ af.resps[j].kind = "throw" /\ af.resps[i].kind = "response"

(***************************************************************************)
(* C38: when one fixture is in the lists of two teams of a league, both    *)
(* slots show the same goalsTotal, cornersTotal and cardsTotal.            *)
(***************************************************************************)
SameTotals(m, n) ==
    /\ m.goalsTotal = n.goalsTotal
    /\ m.cornersTotal = n.cornersTotal
    /\ m.cardsTotal = n.cardsTotal

C38_SameTotalsInBothLists ==
    \A b \in Boards : \A t, u \in TeamsOf(b) :
        \A k \in 1 .. Len(Slots(b, t)) : \A l \in 1 .. Len(Slots(b, u)) :
            (t # u /\ IsReal(Slots(b, t)[k])
                 /\ Slots(b, t)[k].fixtureId = Slots(b, u)[l].fixtureId) =>
                SameTotals(Slots(b, t)[k], Slots(b, u)[l])

\* a fixture with an uneven score and known corners and cards, home in one
\* list and away in the other
C38_Witness ==
    \E b \in Boards : \E t, u \in TeamsOf(b) :
        \E k \in 1 .. Len(Slots(b, t)) : \E l \in 1 .. Len(Slots(b, u)) :
            /\ t # u /\ IsReal(Slots(b, t)[k])
            /\ Slots(b, t)[k].fixtureId = Slots(b, u)[l].fixtureId
            /\ Slots(b, t)[k].isHome /\ ~Slots(b, u)[l].isHome
            /\ Slots(b, t)[k].goalsTotal = 3
            /\ Slots(b, t)[k].cornersTotal \notin {Null, 0}
            /\ Slots(b, t)[k].cardsTotal \notin {Null, 0}

(***************************************************************************)
(* retryNullable (leagueData.ts 347-358) on its own: one call with any     *)
(* tries and baseWaitMs, against an fn that answers a number, 0 or null.   *)
(***************************************************************************)
MaxTries == 3

\* what fn resolves with
FnAnswers == {Null, 0, 5, 12}

WaitBases == {0, 650, 700}

\* fault variant of notNull: 0 is taken for an absent value
truthy(v) == v # Null /\ v # 0

\* v !== null
notNull(v) == v # Null

\* the call: the first pass of the loop up to `await fn()`, or the return
\* when the loop has no pass
RetryCall(n, baseWaitMs) ==
    /\ retry.pc = "idle"
    /\ retry' = IF 1 <= n
                THEN [retry EXCEPT !.pc = "fn", !.tries = n, !.baseWaitMs = baseWaitMs,
                                   !.i = 1, !.calls = 1]
                ELSE [retry EXCEPT !.pc = "done", !.tries = n, !.baseWaitMs = baseWaitMs,
                                   !.i = 1]
    /\ UNCHANGED <<core, cached, shared, throttled, cron>>

\* `await fn()` resolves with v
RetryAnswer(v) ==
    /\ retry.pc = "fn"
    /\ LET seen == [retry EXCEPT !.answers = Append(@, v)] IN
       retry' = IF notNull(v) THEN [seen EXCEPT !.pc = "done", !.result = v]
                ELSE IF retry.i < retry.tries
                THEN [seen EXCEPT !.pc = "sleep",
                         !.sleeps = Append(@, retry.baseWaitMs * retry.i)]
                ELSE [seen EXCEPT !.pc = "done", !.i = @ + 1, !.result = Null]
    /\ UNCHANGED <<core, cached, shared, throttled, cron>>

\* `await fn()` rejects: nothing catches it, the call rejects
RetryThrows ==
    /\ retry.pc = "fn"
    /\ retry' = [retry EXCEPT !.pc = "rejected"]
    /\ UNCHANGED <<core, cached, shared, throttled, cron>>

\* the sleep ends: i++, and the next pass calls fn
RetrySleepEnds ==
    /\ retry.pc = "sleep"
    /\ retry' = [retry EXCEPT !.pc = "fn", !.i = @ + 1, !.calls = @ + 1]
    /\ UNCHANGED <<core, cached, shared, throttled, cron>>

InitRetry ==
    /\ CoreIdle
    /\ cached = cachedIdle /\ shared = sharedIdle
    /\ throttled = throttledIdle /\ cron = cronIdle
    /\ retry = retryIdle

NextRetry ==
    \/ \E n \in 0 .. MaxTries : \E baseWaitMs \in WaitBases : RetryCall(n, baseWaitMs)
    \/ \E v \in FnAnswers : RetryAnswer(v)
    \/ RetryThrows
    \/ RetrySleepEnds

SpecRetry == InitRetry /\ [][NextRetry]_vars

(***************************************************************************)
(* C37: retryNullable(fn, tries, baseWaitMs) calls fn at most tries times, *)
(* returns the first non-null value without calling fn again (0 counts as  *)
(* a value), waits baseWaitMs * i only after the i-th null when another    *)
(* try follows, and returns null exactly when all tries returned null.     *)
(***************************************************************************)
NullAnswers == { k \in 1 .. Len(retry.answers) : retry.answers[k] = Null }

C37_RetryNullable ==
    /\ retry.calls <= retry.tries
    /\ Len(retry.answers) <= retry.calls
    \* fn is not called again after a value
    /\ \A k \in 1 .. Len(retry.answers) : k < retry.calls => retry.answers[k] = Null
    /\ retry.pc = "rejected" => Len(retry.answers) = retry.calls - 1
    \* one wait after each null that is not the last try
    /\ Len(retry.sleeps) = Cardinality({ k \in NullAnswers : k < retry.tries })
    /\ \A k \in 1 .. Len(retry.sleeps) : retry.sleeps[k] = retry.baseWaitMs * k
    /\ retry.pc = "done" =>
          /\ Len(retry.answers) = retry.calls
          /\ IF \E k \in 1 .. Len(retry.answers) : retry.answers[k] # Null
             THEN retry.result = retry.answers[Len(retry.answers)] /\ retry.result # Null
             ELSE retry.result = Null /\ retry.calls = retry.tries

\* two nulls, then 0 on the last try
C37_Witness ==
    /\ retry.pc = "done" /\ retry.tries = 3 /\ retry.baseWaitMs = 650
    /\ retry.answers = <<Null, Null, 0>> /\ retry.result = 0
    /\ retry.sleeps = <<650, 1300>>

(***************************************************************************)
(* The cached client (src/unnamed/part_001 228-310), under the lookups     *)
(* that use it: getCornersTotal under retryNullable(fn, 3, 700) (416-433,  *)
(* 459-470, 543). Two invocations share the module's cache and may         *)
(* overlap.                                                                *)
(*                                                                         *)
(* Time is Date.now() in ms and moves with Tick. A request settles at any  *)
(* time; the wait of retryNullable ends at its due time or later. The      *)
(* backoff of the loop of apiFetch is not measured: the call reads and     *)
(* writes nothing during it, and the next request follows in the same step.*)
(***************************************************************************)
MaxTicks == 2

MaxCalls == 3

CacheCallers == {"A", "B"}

\* the calls of apiFetch with a cacheKey: the key, the ttlMs, and the tries of
\* the retryNullable around it
Lookups ==
    { [cacheKey |-> "fxstats:101", ttlMs |-> 6 * 60 * 60000, tries |-> 3] }

CacheKeys == { l.cacheKey : l \in Lookups }

\* how long the clock moves at once
TickSteps == {700, 15000, 6 * 60 * 60000}

\* what one request of the cached client can meet: a 200 with or without
\* rows, a 500, a 429, or fetch() throwing
CachedOutcomes == {"rows", "empty", "500", "429", "throw"}

errorTtlMs == 15000

retryBaseWaitMs == 700

CachedRes(ok, error, data) == [ok |-> ok, error |-> error, data |-> data]

NoEntry == [value |-> CachedRes(FALSE, "", ""), expiresAt |-> Null]

\* fault variant of cacheGet: an entry is returned whatever its age
cacheGetStale(cache, key, now) ==
    [hit |-> cache[key] # NoEntry, value |-> cache[key].value, cache |-> cache]

\* cacheGet (232-240): the entry, unless there is none or it has expired; an
\* expired entry is deleted
cacheGet(cache, key, now) ==
    IF cache[key] = NoEntry THEN [hit |-> FALSE, value |-> NoEntry.value, cache |-> cache]
    ELSE IF now > cache[key].expiresAt
    THEN [hit |-> FALSE, value |-> NoEntry.value, cache |-> [cache EXCEPT ![key] = NoEntry]]
    ELSE [hit |-> TRUE, value |-> cache[key].value, cache |-> cache]

\* cacheSet (242-244)
cacheSet(cache, key, value, ttlMs, now) ==
    [cache EXCEPT ![key] = [value |-> value, expiresAt |-> now + ttlMs]]

\* getCornersTotal (416-433) on the result of apiFetch: null on a failure and
\* on an answer without rows
cornersOrNull(res) == IF ~res.ok \/ res.data = "empty" THEN Null ELSE 9

\* apiFetch returns res to call C at time now: getCornersTotal, then the rest
\* of the pass of retryNullable (464-466)
cachedReturns(C, res, now) ==
    LET v == cornersOrNull(res)
        D == [C EXCEPT !.ok = res.ok, !.attempt = 0, !.wakeAt = 0]
    IN  IF v # Null THEN [D EXCEPT !.pc = "done", !.result = v]
        ELSE IF D.i < D.tries
        THEN [D EXCEPT !.pc = "wait", !.wakeAt = now + retryBaseWaitMs * D.i]
        ELSE [D EXCEPT !.pc = "done", !.result = Null]

\* what the observer notes of the stores under a key: the last one (when, with
\* which ttlMs of its caller, a success or not), when the last failure was
\* stored, and whether a call came more than 15 s after that failure
nothingStored ==
    [any |-> FALSE, at |-> 0, ok |-> FALSE, callerTtlMs |-> 0, failedAt |-> Null,
     called |-> FALSE]

\* cacheSet as call c of apiFetch calls it, and what the observer notes of it
cachedStore(S, c, res, ttlMs) ==
    LET key == S.calls[c].cacheKey IN
    [S EXCEPT !.cache = cacheSet(S.cache, key, res, ttlMs, S.now),
              !.stored[key] = [any |-> TRUE, at |-> S.now, ok |-> res.ok,
                               callerTtlMs |-> S.calls[c].ttlMs,
                               failedAt |-> IF res.ok THEN @.failedAt ELSE S.now,
                               called |-> IF res.ok THEN @.called ELSE FALSE]]

\* more than 15 s have passed since a failure was stored under the key
LongAfterFailure(S, key) ==
    S.stored[key].failedAt # Null /\ S.now > S.stored[key].failedAt + 15000

\* a result was stored under the key after the last failure
StoredSinceFailure(S, key) == S.stored[key].failedAt # Null /\ S.stored[key].ok

\* apiFetch (247-310) from its call to its first await or its return, for the
\* pass i of retryNullable of call c
apiFetchBegins(S, c, i) ==
    LET key == S.calls[c].cacheKey
        g == cacheGet(S.cache, key, S.now)
        long == LongAfterFailure(S, key)
        C == [S.calls[c] EXCEPT !.i = i, !.requested = FALSE, !.fromCache = g.hit,
                 !.fresh = g.hit /\ S.now <= S.cache[key].expiresAt,
                 !.firstAfterFailure = long /\ ~S.stored[key].called,
                 !.storedSince = StoredSinceFailure(S, key)]
        T == [S EXCEPT !.cache = g.cache, !.stored[key].called = @ \/ long]
    IN  IF g.hit
        THEN [T EXCEPT !.calls[c] = cachedReturns(C, g.value, S.now)]
        ELSE IF ~S.apiKey
        THEN [T EXCEPT !.calls[c] =
                 cachedReturns(C, CachedRes(FALSE, "Missing APISPORTS_KEY env var", ""),
                               S.now)]
        ELSE [T EXCEPT !.calls[c] = [C EXCEPT !.pc = "fetch", !.attempt = 1,
                                              !.requested = TRUE]]

\* the sleep of the loop of apiFetch and what follows it: attempt++, the next
\* request or the exit of the loop (308)
cachedBackoff(S, c) ==
    IF withinAttempts(S.calls[c].attempt + 1)
    THEN [S EXCEPT !.calls[c].attempt = @ + 1]
    ELSE [S EXCEPT !.calls[c] =
             cachedReturns(S.calls[c], CachedRes(FALSE, "Unknown error", ""), S.now)]

\* a lookup is called
CachedCall(c, l) ==
    /\ cached.calls[c].pc \in {"idle", "done"}
    /\ cached.made < MaxCalls
    /\ cached' = apiFetchBegins(
                    [cached EXCEPT !.made = @ + 1,
                        !.calls[c] =
                            [cachedCallIdle EXCEPT !.cacheKey = l.cacheKey,
                                                   !.ttlMs = l.ttlMs, !.tries = l.tries]],
                    c, 1)
    /\ UNCHANGED <<core, shared, throttled, cron, retry>>

\* `await fetch(...)` of call c settles with outcome o
CachedSettle(c, o) ==
    /\ cached.calls[c].pc = "fetch"
    /\ LET C == cached.calls[c] IN
       cached' =
         IF o = "429"
         THEN cachedBackoff(cached, c)
         ELSE IF o = "500"
         THEN LET res == CachedRes(FALSE, "API 500", "") IN
              [cachedStore(cached, c, res, errorTtlMs)
                  EXCEPT !.calls[c] = cachedReturns(C, res, cached.now)]
         ELSE IF o \in {"rows", "empty"}
         THEN LET res == CachedRes(TRUE, "", o) IN
              [cachedStore(cached, c, res, C.ttlMs)
                  EXCEPT !.calls[c] = cachedReturns(C, res, cached.now)]
         ELSE IF C.attempt = maxAttempts
         THEN LET res == CachedRes(FALSE, "Network error", "") IN
              [cachedStore(cached, c, res, errorTtlMs)
                  EXCEPT !.calls[c] = cachedReturns(C, res, cached.now)]
         ELSE cachedBackoff(cached, c)
    /\ UNCHANGED <<core, shared, throttled, cron, retry>>

\* the sleep of retryNullable ends: i++, and fn is called again
CachedRetry(c) ==
    /\ cached.calls[c].pc = "wait"
    /\ cached.now >= cached.calls[c].wakeAt
    /\ \A d \in CacheCallers :
          cached.calls[d].pc = "wait" => cached.calls[c].wakeAt <= cached.calls[d].wakeAt
    /\ cached' = apiFetchBegins(cached, c, cached.calls[c].i + 1)
    /\ UNCHANGED <<core, shared, throttled, cron, retry>>

\* time passes
CachedTick(d) ==
    /\ cached.ticks < MaxTicks
    /\ cached' = [cached EXCEPT !.now = @ + d, !.ticks = @ + 1]
    /\ UNCHANGED <<core, shared, throttled, cron, retry>>

InitCache ==
    /\ CoreIdle
    /\ cached \in
          { [cachedIdle EXCEPT !.apiKey = k,
                !.cache = [key \in CacheKeys |-> NoEntry],
                !.stored = [key \in CacheKeys |-> nothingStored],
                !.calls = [c \in CacheCallers |-> cachedCallIdle]] : k \in BOOLEAN }
    /\ shared = sharedIdle /\ throttled = throttledIdle
    /\ cron = cronIdle /\ retry = retryIdle

NextCache ==
    \/ \E c \in CacheCallers : \E l \in Lookups : CachedCall(c, l)
    \/ \E c \in CacheCallers : \E o \in CachedOutcomes : CachedSettle(c, o)
    \/ \E c \in CacheCallers : CachedRetry(c)
    \/ \E d \in TickSteps : CachedTick(d)

SpecCache == InitCache /\ [][NextCache]_vars

(***************************************************************************)
(* C32: in the cached fetch client a stored result is never returned after *)
(* its expiry; a failure result (a non-2xx status, a network failure on    *)
(* the last attempt) is stored for 15 s and a success for the caller's     *)
(* TTL; the first call with the same key more than 15 s after a failure    *)
(* issues a new HTTP request.                                              *)
(***************************************************************************)
NeverServedAfterExpiry ==
    \A c \in CacheCallers : cached.calls[c].fromCache => cached.calls[c].fresh

StoredForItsTime ==
    \A key \in CacheKeys :
        cached.cache[key] # NoEntry =>
            cached.cache[key].expiresAt =
                cached.stored[key].at
                    + (IF cached.cache[key].value.ok THEN cached.stored[key].callerTtlMs
                       ELSE 15000)

\* the claim as it stands: every first call long after a failure goes upstream
C32_RefetchAfterFailure ==
    /\ NeverServedAfterExpiry
    /\ StoredForItsTime
    /\ \A c \in CacheCallers :
          cached.calls[c].firstAfterFailure =>
              cached.calls[c].requested /\ ~cached.calls[c].fromCache

\* C32, amended: the first call with the same key more than 15 s after a
\* failure issues a new HTTP request unless a result was stored under the key
\* after that failure, by a call that was under way when the failure was stored
C32_RefetchUnlessStoredSince ==
    /\ NeverServedAfterExpiry
    /\ StoredForItsTime
    /\ \A c \in CacheCallers :
          (cached.calls[c].firstAfterFailure /\ ~cached.calls[c].storedSince) =>
              cached.calls[c].requested /\ ~cached.calls[c].fromCache

\* a failure was stored and has expired; the first call after that went
\* upstream and its success is stored for six hours, while the other call was
\* answered from the cache
C32_Witness ==
    \E c, d \in CacheCallers :
        /\ cached.calls[c].firstAfterFailure /\ ~cached.calls[c].storedSince
        /\ cached.calls[c].requested /\ cached.calls[c].pc = "done"
        /\ cached.calls[c].result = 9
        /\ cached.cache[cached.calls[c].cacheKey].expiresAt = cached.now + 6 * 60 * 60000
        /\ d # c /\ cached.calls[d].fromCache /\ cached.calls[d].fresh

(***************************************************************************)
(* C33: in the cached variant of the pipeline, when a stats lookup yields  *)
(* null (a failed request or an empty 200), every further attempt of       *)
(* retryNullable sends a new upstream request instead of being answered    *)
(* from the cache.                                                         *)
(***************************************************************************)
Alone(c) == \A d \in CacheCallers \ {c} : cached.calls[d].pc = "idle"

C33_RetriesReachUpstream ==
    \A c \in CacheCallers :
        (cached.apiKey /\ Alone(c) /\ cached.calls[c].i >= 2) =>
            cached.calls[c].requested /\ ~cached.calls[c].fromCache

(***************************************************************************)
(* The refresh route (src/src/app/api/cron/refresh/route.ts) and the build *)
(* it runs (src/src/lib/buildBoards.ts, over src/src/lib/apifootball.ts):  *)
(* one GET, against an environment, an upstream and a stored snapshot.     *)
(***************************************************************************)
\* the leagues of buildAllBoards (81-87)
BuildLeagues ==
    <<[leagueId |-> 39, leagueName |-> "Premier League", season |-> 2025],
      [leagueId |-> 140, leagueName |-> "La Liga", season |-> 2025],
      [leagueId |-> 135, leagueName |-> "Serie A", season |-> 2025],
      [leagueId |-> 78, leagueName |-> "Bundesliga", season |-> 2025],
      [leagueId |-> 262, leagueName |-> "Liga MX", season |-> 2025]>>

\* the upstream of one league: every request is answered, or the roster
\* request fails, or the fixtures request, or the statistics and events ones
BuildKinds == {"OK", "TEAMS_FAIL", "FIXTURES_FAIL", "STATS_FAIL"}

\* url.searchParams.get("token"): the value of the parameter, or null
NoToken == "null"

Tokens == {NoToken, "", "s3cret", "guess"}

\* process.env.CRON_SECRET, "" when it is not set
Secrets == {"", "s3cret"}

NoSnapshot == [updatedAt |-> "", boards |-> <<>>]

OldSnapshot == [updatedAt |-> "yesterday", boards |-> <<>>]

\* fault variant of isAuthorized: the token is compared with the secret even
\* when no secret is set
authorizedIfEqual(secret, token) == token = secret

\* isAuthorized (7-16)
isAuthorized(secret, token) ==
    IF secret = "" THEN FALSE ELSE token = secret

\* what apiFootball gets for a request of league li
BuildTeamsResp(kind) == IF kind = "TEAMS_FAIL" THEN Fail ELSE TeamsResp("E2E", 2025)

BuildFixturesResp(kind) == IF kind = "FIXTURES_FAIL" THEN Fail ELSE FixturesResp("E2E", 2025)

BuildStatsResp(kind, fixtureId) == IF kind = "STATS_FAIL" THEN Fail ELSE StatsResp(fixtureId, 1)

\* GET /fixtures/events?fixture=&type=Card: the upstream sends the cards only
BuildEventsResp(kind, fixtureId) ==
    IF kind = "STATS_FAIL" \/ ~EventsResp(fixtureId, 1).ok THEN Fail
    ELSE Ok(SelectSeq(EventsResp(fixtureId, 1).response, LAMBDA e : e.type = "Card"))

\* apiFootball(...).catch(() => []) (128-129)
orEmpty(answer) == IF answer.ok THEN answer.response ELSE <<>>

\* isFinished (52-54)
isFinished(short) == short \in {"FT", "AET", "PEN"}

\* toNum (56-60)
toNum(v) ==
    IF v.t = "num" THEN v.n
    ELSE IF v.t = "str" /\ v.s # "" /\ v.s \in DOMAIN StringToNumber THEN StringToNumber[v.s]
    ELSE Null

\* cornersTotalFromStats (62-71)
cornersTotalFromStats(stats) ==
    LET vals == SelectSeq([i \in 1 .. Len(stats) |-> toNum(cornerValue(stats[i]))],
                          LAMBDA n : n # Null)
    IN  IF vals = <<>> THEN Null ELSE sumOrZero(vals)

\* cardsTotalFromEvents (73-77)
cardsTotalFromEvents(events) == Len(events)

\* one element of `matches` (117-141)
buildMatch(kind, teamId, fx) ==
    LET goalsHome == IF fx.goals.home = Null THEN 0 ELSE fx.goals.home
        goalsAway == IF fx.goals.away = Null THEN 0 ELSE fx.goals.away
        isHome == fx.teams.home.id = teamId
    IN  [fixtureId |-> fx.fixture.id, date |-> fx.fixture.date,
         opponent |-> IF isHome THEN fx.teams.away.name ELSE fx.teams.home.name,
         isHome |-> isHome, goalsTotal |-> goalsHome + goalsAway,
         cornersTotal |-> cornersTotalFromStats(orEmpty(BuildStatsResp(kind, fx.fixture.id))),
         cardsTotal |-> cardsTotalFromEvents(orEmpty(BuildEventsResp(kind, fx.fixture.id)))]

\* one pass of the loop over teamsResp (109-150)
buildTeam(kind, t, finished) ==
    LET last7 == slice(SelectSeq(finished, LAMBDA f :
                          f.teams.home.id = t.team.id \/ f.teams.away.id = t.team.id), 7)
    IN  [teamId |-> t.team.id, name |-> t.team.name, logo |-> t.team.logo,
         matches |-> [i \in 1 .. Len(last7) |-> buildMatch(kind, t.team.id, last7[i])]]

\* apiFootball throws (8-10, 28-31) in buildAllBoards, where nothing catches
\* it: buildAllBoards rejects, and so does GET
buildThrows(C) ==
    [C EXCEPT !.pc = "done", !.build = "rejected", !.threw = TRUE, !.teamsResp = <<>>,
              !.finished = <<>>, !.teams = <<>>]

\* GET (18-27): the checks, and buildAllBoards up to its first await
CronGet(token) ==
    /\ cron.pc = "idle"
    /\ cron' =
         IF ~isAuthorized(cron.secret, token)
         THEN [cron EXCEPT !.pc = "done", !.token = token, !.status = 401]
         ELSE IF ~cron.apiKey
         THEN [cron EXCEPT !.pc = "done", !.token = token, !.status = 500]
         ELSE [cron EXCEPT !.pc = "teams", !.token = token, !.build = "running", !.li = 1]
    /\ UNCHANGED <<core, cached, shared, throttled, retry>>

\* `await apiFootball("/teams", ...)` settles (92-95)
BuildTeamsAnswer ==
    /\ cron.pc = "teams"
    /\ LET answer == BuildTeamsResp(cron.kinds[cron.li]) IN
       cron' = IF ~answer.ok THEN buildThrows(cron)
               ELSE [cron EXCEPT !.pc = "fixtures", !.teamsResp = answer.response]
    /\ UNCHANGED <<core, cached, shared, throttled, retry>>

\* the league is pushed; the next league, or the return of buildAllBoards
\* (152-163)
buildPush(C) ==
    LET l == BuildLeagues[C.li]
        boards == Append(C.boards,
                     [leagueId |-> l.leagueId, leagueName |-> l.leagueName,
                      seasonUsed |-> l.season, teams |-> C.teams])
    IN  IF C.li < Len(BuildLeagues)
        THEN [C EXCEPT !.pc = "teams", !.li = @ + 1, !.boards = boards, !.teamsResp = <<>>,
                       !.finished = <<>>, !.teams = <<>>]
        ELSE [C EXCEPT !.pc = "put", !.build = "resolved", !.boards = boards,
                       !.teamsResp = <<>>, !.finished = <<>>, !.teams = <<>>,
                       !.payload = [updatedAt |-> "now", boards |-> boards]]

\* `await apiFootball("/fixtures", ...)` settles (97-105)
BuildFixturesAnswer ==
    /\ cron.pc = "fixtures"
    /\ LET answer == BuildFixturesResp(cron.kinds[cron.li]) IN
       cron' = IF ~answer.ok THEN buildThrows(cron)
               ELSE LET C == [cron EXCEPT !.pc = "matches",
                                 !.finished = sortByDateDesc(SelectSeq(answer.response,
                                                 LAMBDA f : isFinished(f.fixture.status)))]
                    IN  IF C.teamsResp = <<>> THEN buildPush(C) ELSE C
    /\ UNCHANGED <<core, cached, shared, throttled, retry>>

\* `await Promise.all(last7.map(...))` of the next team settles (116-149)
BuildMatchesAnswer ==
    /\ cron.pc = "matches"
    /\ LET t == cron.teamsResp[Len(cron.teams) + 1]
           C == [cron EXCEPT !.teams = Append(@, buildTeam(cron.kinds[cron.li], t,
                                                           cron.finished))]
       IN  cron' = IF Len(C.teams) = Len(C.teamsResp) THEN buildPush(C) ELSE C
    /\ UNCHANGED <<core, cached, shared, throttled, retry>>

\* `await put("data/boards.json", ...)` settles (29-39): the blob is written,
\* or put rejects and GET with it
CronPut(written) ==
    /\ cron.pc = "put"
    /\ cron' = IF written
               THEN [cron EXCEPT !.pc = "done", !.blob = cron.payload, !.puts = @ + 1,
                                 !.status = 200]
               ELSE [cron EXCEPT !.pc = "done", !.threw = TRUE]
    /\ UNCHANGED <<core, cached, shared, throttled, retry>>

InitRefresh ==
    /\ CoreIdle
    /\ cron \in
          { [cronIdle EXCEPT !.secret = s, !.apiKey = k, !.kinds = ks, !.blob = b,
                             !.before = b] :
                s \in Secrets, k \in BOOLEAN,
                ks \in [1 .. Len(BuildLeagues) -> BuildKinds],
                b \in {NoSnapshot, OldSnapshot} }
    /\ cached = cachedIdle /\ shared = sharedIdle
    /\ throttled = throttledIdle /\ retry = retryIdle

NextRefresh ==
    \/ \E token \in Tokens : CronGet(token)
    \/ BuildTeamsAnswer
    \/ BuildFixturesAnswer
    \/ BuildMatchesAnswer
    \/ \E written \in BOOLEAN : CronPut(written)

SpecRefresh == InitRefresh /\ [][NextRefresh]_vars

(***************************************************************************)
(* C34: in buildAllBoards a failure fetching the roster or the fixtures of *)
(* one league does not abort the other leagues: the call still resolves,   *)
(* with the boards of the leagues that succeeded.                          *)
(***************************************************************************)
LeagueSucceeds(li) == cron.kinds[li] \notin {"TEAMS_FAIL", "FIXTURES_FAIL"}

SucceededLeagueIds ==
    LET ok == SelectSeq([li \in 1 .. Len(BuildLeagues) |-> li], LAMBDA li : LeagueSucceeds(li))
    IN  [k \in 1 .. Len(ok) |-> BuildLeagues[ok[k]].leagueId]

C34_BuildSurvivesLeagueFailure ==
    (cron.build \notin {"none", "running"}) =>
        /\ cron.build = "resolved"
        /\ [b \in 1 .. Len(cron.payload.boards) |-> cron.payload.boards[b].leagueId]
              = SucceededLeagueIds

(***************************************************************************)
(* C40: the refresh route writes data/boards.json only for a request whose *)
(* token equals a non-empty CRON_SECRET, with an API key present, and only *)
(* after buildAllBoards has resolved; an unauthorized request, a missing   *)
(* key or a failed build performs no write and leaves the stored snapshot  *)
(* unchanged.                                                              *)
(***************************************************************************)
WriteAllowed ==
    /\ cron.secret # "" /\ cron.token = cron.secret
    /\ cron.apiKey
    /\ cron.build = "resolved"

NoWrite == cron.puts = 0 /\ cron.blob = cron.before

WritesOnlyWhenAllowed ==
    /\ ~NoWrite => WriteAllowed /\ cron.blob = cron.payload /\ cron.puts = 1
    /\ (cron.pc = "done" /\ cron.status = 401) => NoWrite
    /\ (cron.pc = "done" /\ (cron.secret = "" \/ cron.token # cron.secret)) =>
          NoWrite /\ cron.status = 401 /\ cron.build = "none"
    /\ (cron.pc = "done" /\ ~cron.apiKey) => NoWrite /\ cron.build = "none"
    /\ cron.build \in {"none", "running", "rejected"} => NoWrite

C40_WriteOnlyAfterBuild ==
    /\ [](WritesOnlyWhenAllowed)
    /\ [][cron'.blob # cron.blob => cron.build = "resolved" /\ cron'.blob = cron.payload]_vars

\* an authorized request with a key whose build resolved and was written over
\* the old snapshot
C40_Witness ==
    /\ cron.pc = "done" /\ cron.status = 200 /\ cron.puts = 1
    /\ cron.token = "s3cret" /\ cron.before = OldSnapshot
    /\ cron.blob # cron.before /\ Len(cron.blob.boards) = Len(BuildLeagues)

(***************************************************************************)
(* The variant with a module-level fixtureStatsCache (src/unnamed/part_011 *)
(* 111-152, 183-186, 188-300): two invocations of getLeagueBoards, which   *)
(* may overlap, each on one league whose requests for the season, the      *)
(* roster and the fixtures are answered together.                          *)
(***************************************************************************)
Invocations == {"A", "B"}

\* const maxTries = 4
maxTries == 4

\* what apiGet answers to a statistics request: the data, an error that
\* names the rate limit, or another error
StatsOutcomes == {"ok", "rate", "fail"}

\* the finished fixtures of the league, newest first, and its roster
SharedFixtures == <<Fx(101, 30, "FT", Alpha, Beta, 2, 1), Fx(102, 20, "FT", Beta, Alpha, 0, 0)>>

SharedTeams == <<RosterEntry(1, "Alpha"), RosterEntry(2, "Beta")>>

StatsBlock(teamId, statistics) == [team |-> [id |-> teamId], statistics |-> statistics]

\* GET /fixtures/statistics?fixture=
SharedStats(fixtureId) ==
    IF fixtureId = 101
    THEN <<StatsBlock(1, <<Stat("Corner Kicks", Num(5)), Stat("Yellow Cards", Num(2)),
                           Stat("Red Cards", NullValue)>>),
           StatsBlock(2, <<Stat("Corner Kicks", Str("4")), Stat("Yellow Cards", Num(1)),
                           Stat("Red Cards", Num(1))>>)>>
    ELSE <<StatsBlock(2, <<Stat("Corner Kicks", Num(0)), Stat("Yellow Cards", Num(0))>>),
           StatsBlock(1, <<Stat("Corner Kicks", Num(3))>>)>>

\* an entry of fixtureStatsCache: none, null, or the data
Absent == [has |-> FALSE, null |-> TRUE, response |-> <<>>]

NullStats == [has |-> TRUE, null |-> TRUE, response |-> <<>>]

StatsData(response) == [has |-> TRUE, null |-> FALSE, response |-> response]

\* statToNumber (66-71)
statToNumber(v) ==
    IF v.t = "null" THEN 0
    ELSE IF v.t = "num" THEN v.n
    ELSE IF v.s \in DOMAIN StringToNumber THEN StringToNumber[v.s] ELSE 0

\* getTeamStat (73-82)
getTeamStat(stats, teamId, type) ==
    LET block == SelectSeq(stats, LAMBDA x : x.team.id = teamId) IN
    IF block = <<>> THEN 0
    ELSE LET s == SelectSeq(block[1].statistics, LAMBDA x : x.type = type)
         IN  IF s = <<>> THEN 0 ELSE statToNumber(s[1].value)

\* the list of one team: its fixtures of allFixtures, seven at most (226-238)
sharedList(teamId) ==
    slice(SelectSeq(SharedFixtures, LAMBDA f :
              f.teams.home.id = teamId \/ f.teams.away.id = teamId), 7)

\* uniqueIds (241-246)
uniqueIds ==
    setAddAll(<<>>, Concat([i \in 1 .. Len(SharedTeams) |->
        LET list == sharedList(SharedTeams[i].team.id)
        IN  [k \in 1 .. Len(list) |-> list[k].fixture.id]]))

\* one MatchRow (258-291), with the cache as it is when the row is built
sharedRow(cache, teamId, f) ==
    LET stats == cache[f.fixture.id]
        isHome == f.teams.home.id = teamId
        homeId == f.teams.home.id
        awayId == f.teams.away.id
    IN  [fixtureId |-> f.fixture.id, date |-> f.fixture.date,
         opponent |-> IF isHome THEN f.teams.away.name ELSE f.teams.home.name,
         isHome |-> isHome,
         goalsTotal |-> (IF f.goals.home = Null THEN 0 ELSE f.goals.home)
                        + (IF f.goals.away = Null THEN 0 ELSE f.goals.away),
         cornersTotal |-> IF stats.null THEN Null
                          ELSE getTeamStat(stats.response, homeId, "Corner Kicks")
                               + getTeamStat(stats.response, awayId, "Corner Kicks"),
         cardsTotal |-> IF stats.null THEN Null
                        ELSE getTeamStat(stats.response, homeId, "Yellow Cards")
                             + getTeamStat(stats.response, homeId, "Red Cards")
                             + getTeamStat(stats.response, awayId, "Yellow Cards")
                             + getTeamStat(stats.response, awayId, "Red Cards")]

\* rows (255-300)
sharedRows(cache) ==
    [i \in 1 .. Len(SharedTeams) |->
        LET t == SharedTeams[i].team
            list == sharedList(t.id)
        IN  [teamId |-> t.id, name |-> t.name, logo |-> t.logo,
             matches |-> [k \in 1 .. Len(list) |-> sharedRow(cache, t.id, list[k])]]]

\* mapLimit (88-106) with one worker: after a lookup, the next id or the rows
sharedNext(V) ==
    IF V.idx < Len(uniqueIds) THEN [V EXCEPT !.pc = "stats", !.idx = @ + 1, !.attempt = 0]
    ELSE [V EXCEPT !.pc = "rows", !.idx = @ + 1, !.attempt = 0]

\* getLeagueBoards (183-186): the cache is cleared and the league is started
SharedCall(v) ==
    /\ shared.inv[v].pc = "idle"
    /\ shared' = [shared EXCEPT !.cache = [id \in DOMAIN shared.cache |-> Absent],
                                !.inv[v].pc = "league"]
    /\ UNCHANGED <<core, cached, throttled, cron, retry>>

\* the season, the roster and the fixtures are answered (188-246)
SharedLeagueAnswer(v, ok) ==
    /\ shared.inv[v].pc = "league"
    /\ shared' = IF ok THEN [shared EXCEPT !.inv[v].pc = "stats", !.inv[v].idx = 1]
                 ELSE [shared EXCEPT !.inv[v].pc = "done", !.inv[v].error = "API error"]
    /\ UNCHANGED <<core, cached, throttled, cron, retry>>

\* getFixtureStatsWithRetry (113-121) is called for the next id: the entry of
\* the cache if there is one, else the first sleep
SharedLookup(v) ==
    /\ shared.inv[v].pc = "stats"
    /\ LET V == shared.inv[v]
           id == uniqueIds[V.idx]
       IN  shared' =
             IF shared.cache[id].has
             THEN [shared EXCEPT !.inv[v] =
                      sharedNext([V EXCEPT !.got = IF shared.cache[id].null THEN @
                                                   ELSE @ \cup {id}])]
             ELSE [shared EXCEPT !.inv[v].pc = "sleep250", !.inv[v].attempt = 1]
    /\ UNCHANGED <<core, cached, throttled, cron, retry>>

\* sleep(250) ends and the request leaves (121-127)
SharedSleepEnds(v) ==
    /\ shared.inv[v].pc = "sleep250"
    /\ shared' = [shared EXCEPT !.inv[v].pc = "get"]
    /\ UNCHANGED <<core, cached, throttled, cron, retry>>

\* apiGet answers (129-147)
SharedAnswer(v, o) ==
    /\ shared.inv[v].pc = "get"
    /\ LET V == shared.inv[v]
           id == uniqueIds[V.idx]
       IN  shared' =
             IF o = "ok"
             THEN [shared EXCEPT !.cache[id] = StatsData(SharedStats(id)),
                                 !.inv[v] = sharedNext([V EXCEPT !.got = @ \cup {id}])]
             ELSE IF o = "rate" /\ V.attempt < maxTries
             THEN [shared EXCEPT !.inv[v].pc = "backoff"]
             ELSE [shared EXCEPT !.cache[id] = NullStats, !.inv[v] = sharedNext(V)]
    /\ UNCHANGED <<core, cached, throttled, cron, retry>>

\* sleep(600 * attempt) ends: attempt++, and the next pass of the loop
SharedBackoffEnds(v) ==
    /\ shared.inv[v].pc = "backoff"
    /\ shared' = [shared EXCEPT !.inv[v].pc = "sleep250", !.inv[v].attempt = @ + 1]
    /\ UNCHANGED <<core, cached, throttled, cron, retry>>

\* mapLimit has resolved: the rows are built from the cache (255-300)
SharedRows(v) ==
    /\ shared.inv[v].pc = "rows"
    /\ shared' = [shared EXCEPT !.inv[v].pc = "done",
                                !.inv[v].teams = sharedRows(shared.cache)]
    /\ UNCHANGED <<core, cached, throttled, cron, retry>>

invocationIdle ==
    [pc |-> "idle", idx |-> 0, attempt |-> 0, got |-> {}, teams |-> <<>>, error |-> ""]

InitShared ==
    /\ CoreIdle
    /\ shared = [cache |-> [id \in Range(uniqueIds) |-> Absent],
                 inv |-> [v \in Invocations |-> invocationIdle]]
    /\ cached = cachedIdle /\ throttled = throttledIdle
    /\ cron = cronIdle /\ retry = retryIdle

NextShared ==
    \/ \E v \in Invocations : SharedCall(v)
    \/ \E v \in Invocations : \E ok \in BOOLEAN : SharedLeagueAnswer(v, ok)
    \/ \E v \in Invocations : SharedLookup(v)
    \/ \E v \in Invocations : SharedSleepEnds(v)
    \/ \E v \in Invocations : \E o \in StatsOutcomes : SharedAnswer(v, o)
    \/ \E v \in Invocations : SharedBackoffEnds(v)
    \/ \E v \in Invocations : SharedRows(v)

SpecShared == InitShared /\ [][NextShared]_vars

(***************************************************************************)
(* C35: with the module-level fixtureStatsCache, overlapping invocations   *)
(* of getLeagueBoards do not interfere: the clearing of the cache at the   *)
(* start of one invocation never makes another report null corners or      *)
(* cards for a fixture it had already fetched successfully.                *)
(***************************************************************************)
RowsOf(v) ==
    Concat([i \in 1 .. Len(shared.inv[v].teams) |-> shared.inv[v].teams[i].matches])

C35_ClearLeavesOthersAlone ==
    \A v \in Invocations :
        shared.inv[v].pc = "done" =>
            \A k \in 1 .. Len(RowsOf(v)) :
                RowsOf(v)[k].fixtureId \in shared.inv[v].got =>
                    /\ RowsOf(v)[k].cornersTotal # Null
                    /\ RowsOf(v)[k].cardsTotal # Null

(***************************************************************************)
(* The throttled client (src/unnamed/part_015 61-67, 70-114) under the     *)
(* fixture lookups of one team, which getLeagueBoard runs together under   *)
(* Promise.all (311-343): each lookup calls getCornersTotal and then       *)
(* getCardsTotal, and each of them apiFetchJson.                           *)
(*                                                                         *)
(* Time is Date.now() in ms. A timer fires when it is due; a response      *)
(* arrives at any time.                                                    *)
(***************************************************************************)
MaxLookups == 2

MaxLatencies == 1

FixtureLookups == 1 .. MaxLookups

\* Date.now() when the lookups are called
StartTime == 1000

\* how long a response can take
Latencies == {50, 170}

\* what a request of the throttled client can meet
ThrottledOutcomes == {"200", "429", "500"}

\* await throttle(220)
throttleMs == 220

\* opts.retries ?? 3
retries == 3

\* 400 * Math.pow(2, attempt)
throttledBackoff(attempt) == 400 * Pow2(attempt)

\* fetch(url, ...) is called: what the observer notes of the start of the
\* request, the time and the shortest distance between two starts so far
requestStarts(S, c) ==
    LET gap == IF S.lastStart = Null THEN Null ELSE S.now - S.lastStart IN
    [S EXCEPT !.lookups[c].pc = "fetch", !.lookups[c].wakeAt = 0,
              !.lastStart = S.now, !.starts = @ + 1,
              !.minGap = IF gap = Null THEN @
                         ELSE IF @ = Null THEN gap ELSE Min(@, gap)]

\* throttle (61-67) up to its await, or to its end when there is nothing to
\* wait for; then the request starts
throttleBegins(S, c) ==
    LET wait == Max(0, S.lastRequestAt + throttleMs - S.now) IN
    IF wait > 0
    THEN [S EXCEPT !.lookups[c].pc = "throttle", !.lookups[c].wakeAt = S.now + wait]
    ELSE requestStarts([S EXCEPT !.lastRequestAt = S.now], c)

\* no timer is due before the timer of lookup c
ThrottledTimerIsNext(c) ==
    \A d \in FixtureLookups :
        throttled.lookups[d].pc \in {"throttle", "backoff"} =>
            throttled.lookups[c].wakeAt <= throttled.lookups[d].wakeAt

\* a lookup is called: getCornersTotal, apiFetchJson, throttle
ThrottledCall(c) ==
    /\ throttled.lookups[c].pc = "idle"
    /\ throttled' = throttleBegins([throttled EXCEPT !.lookups[c].step = 1], c)
    /\ UNCHANGED <<core, cached, shared, cron, retry>>

\* the timer of throttle fires: lastRequestAt = Date.now(), and the request
\* starts
ThrottledWake(c) ==
    /\ throttled.lookups[c].pc = "throttle"
    /\ ThrottledTimerIsNext(c)
    /\ LET now == Max(throttled.now, throttled.lookups[c].wakeAt) IN
       throttled' = requestStarts([throttled EXCEPT !.now = now, !.lastRequestAt = now], c)
    /\ UNCHANGED <<core, cached, shared, cron, retry>>

\* the lookup goes on after a call of apiFetchJson has returned or thrown
\* (getCornersTotal and getCardsTotal catch what it throws): getCardsTotal
\* after getCornersTotal, the end after getCardsTotal
lookupGoesOn(S, c) ==
    IF S.lookups[c].step = 1
    THEN throttleBegins([S EXCEPT !.lookups[c].step = 2, !.lookups[c].attempt = 0], c)
    ELSE [S EXCEPT !.lookups[c].pc = "done", !.lookups[c].attempt = 0]

\* `await fetch(...)` settles with outcome o (95-109)
ThrottledSettle(c, o) ==
    /\ throttled.lookups[c].pc = "fetch"
    /\ throttled' =
         IF o = "429" /\ throttled.lookups[c].attempt < retries
         THEN [throttled EXCEPT !.lookups[c].pc = "backoff",
                  !.lookups[c].wakeAt =
                      throttled.now + throttledBackoff(throttled.lookups[c].attempt)]
         ELSE lookupGoesOn(throttled, c)
    /\ UNCHANGED <<core, cached, shared, cron, retry>>

\* the timer of the backoff fires: attempt++, and throttle again
ThrottledBackoffEnds(c) ==
    /\ throttled.lookups[c].pc = "backoff"
    /\ ThrottledTimerIsNext(c)
    /\ throttled' =
         throttleBegins([throttled EXCEPT
                            !.now = Max(@, throttled.lookups[c].wakeAt),
                            !.lookups[c].attempt = @ + 1], c)
    /\ UNCHANGED <<core, cached, shared, cron, retry>>

\* time passes while a response is under way, not beyond a timer that is due
ThrottledTick(d) ==
    /\ throttled.latencies < MaxLatencies
    /\ \E c \in FixtureLookups : throttled.lookups[c].pc = "fetch"
    /\ \A c \in FixtureLookups :
          throttled.lookups[c].pc \in {"throttle", "backoff"} =>
              throttled.now + d <= throttled.lookups[c].wakeAt
    /\ throttled' = [throttled EXCEPT !.now = @ + d, !.latencies = @ + 1]
    /\ UNCHANGED <<core, cached, shared, cron, retry>>

InitThrottled ==
    /\ CoreIdle
    /\ throttled = [throttledIdle EXCEPT !.now = StartTime,
                       !.lookups = [c \in FixtureLookups |->
                                       [pc |-> "idle", step |-> 0, attempt |-> 0,
                                        wakeAt |-> 0]]]
    /\ cached = cachedIdle /\ shared = sharedIdle
    /\ cron = cronIdle /\ retry = retryIdle

NextThrottled ==
    \/ \E c \in FixtureLookups : ThrottledCall(c)
    \/ \E c \in FixtureLookups : ThrottledWake(c)
    \/ \E c \in FixtureLookups : \E o \in ThrottledOutcomes : ThrottledSettle(c, o)
    \/ \E c \in FixtureLookups : ThrottledBackoffEnds(c)
    \/ \E d \in Latencies : ThrottledTick(d)

SpecThrottled == InitThrottled /\ [][NextThrottled]_vars

(***************************************************************************)
(* C39: in the throttled client any two upstream HTTP requests start at    *)
(* least 220 ms apart, also when several fixture lookups of one team run   *)
(* concurrently under Promise.all.                                         *)
(***************************************************************************)
C39_RequestsSpacedApart ==
    throttled.minGap # Null => throttled.minGap >= 220

====
